---------------------------- MODULE Spec2Model ----------------------------
(* Model of src/costco_scraper.py: the CostcoScraper crawl of the          *)
(* configured categories (run / scrape_category) and the per-record        *)
(* persistence of each category's records (save_to_database).              *)
(*                                                                         *)
(* A product is a Python dict: a function from the keys that are present   *)
(* to their values.  The store is the costco_products table: a sequence    *)
(* of rows, each row a dict.                                               *)
EXTENDS Naturals, Integers, Sequences, FiniteSets, TLC

VARIABLES
    pc,            \* position of the single thread of control
    products,      \* scrape_category's `products`, then save_to_database's argument
    idx,           \* position of the loop the thread is in (1-based)
    saved_count,   \* save_to_database's saved_count
    store,         \* rows of the costco_products table
    sinkMode,      \* how the sink resolves a conflict: "merge" or "replace"
    saveLog,       \* this call's per-record outcomes: ok / error / skip
    callNo,        \* SpecSave: which of the two identical calls is running
    firstStore,    \* SpecSave: the store when the first call returned
    firstLog,      \* SpecSave: the outcomes of the first call
    driver,        \* self.driver: "none", "live" or "quit"
    detailsOn,     \* SCRAPE_PRODUCT_DETAILS
    catIdx,        \* run's position in CATEGORIES (0 before the loop)
    all_products,  \* run's all_products
    visited,       \* the categories scrape_category was called for, in call order
    offered,       \* how many extracted records were handed to save_to_database
    product_cards, \* scrape_category's product_cards (container handles)
    links,         \* scrape_category's links (link traversal)
    seen_urls,     \* scrape_category's seen_urls
    product_loaded,\* scrape_category's product_loaded
    page_content,  \* scrape_category's page_content: "unread", "clean" or "challenge"
    page_marker,   \* whether the page the browser shows carries a bot-detection marker
    reloads,       \* driver.refresh() calls of the current category
    graceApplied,  \* whether the extra time.sleep(5) of line 570 ran in this category
    warehouse_set, \* self.warehouse_set
    warehouse_ret, \* what the set_warehouse call returned (None until it returns)
    warehouse_path,\* how far the set_warehouse call got before it returned
    saved_returned,\* SpecTally: sum of the counts the save_to_database calls returned
    cardProduct,   \* scrape_product_card's `product` while one container is extracted
    cardFound,     \* the optional fields for which a strategy of this container found a value
    text,          \* the text last read from an element, or handed to a field parser
    parsed         \* what the field parser returned for `text`

harness == <<callNo, firstStore, firstLog>>
session == <<driver, detailsOn, catIdx, all_products, visited, offered>>
crawl == <<product_cards, links, seen_urls, product_loaded, page_content,
           page_marker, reloads, graceApplied>>

warehouse == <<warehouse_set, warehouse_ret, warehouse_path>>

unit == <<warehouse, saved_returned, cardProduct, cardFound, text, parsed>>

vars == <<pc, products, idx, saved_count, store, sinkMode, saveLog,
          harness, session, crawl, unit>>

-----------------------------------------------------------------------------
(* Bounds *)
MaxBatch == 2      \* longest record list handed to save_to_database in SpecSave

-----------------------------------------------------------------------------
(* Python dict helpers *)
None == "None"

\* dict.get(key): the value, or None when the key is absent
Get(p, k) == IF k \in DOMAIN p THEN p[k] ELSE None

\* Python truthiness of an optional string: None and "" are falsy
Truthy(v) == v # None /\ v # ""

RECURSIVE SeqToSet(_)
SeqToSet(s) == IF s = <<>> THEN {} ELSE {Head(s)} \cup SeqToSet(Tail(s))

SeqsUpTo(S, n) == UNION {[1..k -> S] : k \in 0..n}

-----------------------------------------------------------------------------
(* The upsert sink: table('costco_products').upsert(product,                *)
(* on_conflict='product_url').execute()                                    *)

SinkModes == {"merge", "replace"}

\* The row written over an existing row with the same product_url.  The call
\* hands the sink only the keys the dict holds.  A sink that updates the
\* supplied columns ("merge", ON CONFLICT DO UPDATE SET over the payload's
\* columns) keeps the old value of every column the dict lacks; a sink that
\* rewrites the row ("replace") drops them.
ResolveConflict_KeepOld(mode, old, new) == old

ResolveConflict(mode, old, new) ==
    IF mode = "merge"
    THEN [k \in DOMAIN old \cup DOMAIN new |->
             IF k \in DOMAIN new THEN new[k] ELSE old[k]]
    ELSE new

\* plain insert: a new row whatever the table holds
Upsert_InsertOnly(mode, st, product) == Append(st, product)

\* upsert keyed on product_url: the row with that product_url is rewritten
\* in place, and a row is added only when there is none
Upsert(mode, st, product) ==
    IF \E i \in 1..Len(st) : st[i].product_url = product.product_url
    THEN [i \in 1..Len(st) |->
             IF st[i].product_url = product.product_url
             THEN ResolveConflict(mode, st[i], product)
             ELSE st[i]]
    ELSE Append(st, product)

-----------------------------------------------------------------------------
(* save_to_database *)

\* `if not product.get('product_url')` is the skip test; this is its negation
HasConflictKey_KeyPresent(product) == "product_url" \in DOMAIN product

\* no check of the key at all
HasConflictKey_Always(product) == TRUE

HasConflictKey(product) == Truthy(Get(product, "product_url"))

\* the `except Exception` of the loop body: log and continue with the next record
OnUpsertException_Propagate == "Raised"

OnUpsertException == "Save"

\* one iteration on a record without product_url: diagnostic, continue
SaveSkip ==
    /\ pc = "Save"
    /\ idx <= Len(products)
    /\ ~HasConflictKey(products[idx])
    /\ saveLog' = Append(saveLog, [product |-> products[idx], outcome |-> "skip"])
    /\ idx' = idx + 1
    /\ UNCHANGED <<pc, products, saved_count, store, sinkMode,
                   harness, unit, session, crawl>>

\* one iteration whose upsert completes: the row is written, saved_count += 1
SaveUpsertOk ==
    /\ pc = "Save"
    /\ idx <= Len(products)
    /\ HasConflictKey(products[idx])
    /\ store' = Upsert(sinkMode, store, products[idx])
    /\ saved_count' = saved_count + 1
    /\ saveLog' = Append(saveLog, [product |-> products[idx], outcome |-> "ok"])
    /\ idx' = idx + 1
    /\ UNCHANGED <<pc, products, sinkMode, harness, unit, session, crawl>>

\* one iteration whose upsert raises: nothing is written, the handler runs
SaveUpsertRaise ==
    /\ pc = "Save"
    /\ idx <= Len(products)
    /\ HasConflictKey(products[idx])
    /\ saveLog' = Append(saveLog, [product |-> products[idx], outcome |-> "error"])
    /\ pc' = OnUpsertException
    /\ idx' = idx + 1
    /\ UNCHANGED <<products, saved_count, store, sinkMode,
                   harness, unit, session, crawl>>

-----------------------------------------------------------------------------
(* SpecSave: save_to_database called twice in a row with one record list,   *)
(* from any store, with any of its upserts raising.                        *)

Name1 == "Kirkland Signature Bacon"
Url1 == "https://www.costco.com/a.product.100001.html"
Url2 == "https://www.costco.com/b.product.100002.html"

\* the records a batch is drawn from: keyed (with or without a price),
\* two records sharing a key, an empty key and no key at all
BatchRecords ==
    { [name |-> Name1, product_url |-> Url1, price |-> 1],
      [name |-> Name1, product_url |-> Url1, price |-> 2],
      [name |-> Name1, product_url |-> Url1],
      [name |-> Name1, product_url |-> Url2, price |-> 1],
      [name |-> Name1, product_url |-> "", price |-> 1],
      [name |-> Name1, price |-> 1] }

\* the table before the call: empty, or a row left by an earlier run
InitStores ==
    { <<>>,
      << [name |-> Name1, product_url |-> Url1, price |-> 3] >> }

\* no run is in progress
IdleSession ==
    /\ driver = "none"
    /\ detailsOn = TRUE
    /\ catIdx = 0
    /\ all_products = <<>>
    /\ visited = <<>>
    /\ offered = 0

\* set_warehouse not called yet: __init__ sets self.warehouse_set = False
IdleWarehouse ==
    /\ warehouse_set = FALSE
    /\ warehouse_ret = None
    /\ warehouse_path = None

\* nothing set by set_warehouse, no container being extracted, no text parsed
IdleUnit ==
    /\ IdleWarehouse
    /\ saved_returned = 0
    /\ cardProduct = <<>>
    /\ cardFound = {}
    /\ text = None
    /\ parsed = None

\* the locals of scrape_category at its entry
IdleCrawl ==
    /\ product_cards = <<>>
    /\ links = <<>>
    /\ seen_urls = {}
    /\ product_loaded = FALSE
    /\ page_content = "unread"
    /\ page_marker = FALSE
    /\ reloads = 0
    /\ graceApplied = FALSE

InitSave ==
    /\ pc = "Save"
    /\ products \in SeqsUpTo(BatchRecords, MaxBatch)
    /\ idx = 1
    /\ saved_count = 0
    /\ store \in InitStores
    /\ sinkMode \in SinkModes
    /\ saveLog = <<>>
    /\ callNo = 1
    /\ firstStore = <<>>
    /\ firstLog = <<>>
    /\ IdleSession
    /\ IdleCrawl
    /\ IdleUnit

\* the first call returns saved_count and the caller calls again with the same list
SaveAgain ==
    /\ pc = "Save"
    /\ idx > Len(products)
    /\ callNo = 1
    /\ callNo' = 2
    /\ firstStore' = store
    /\ firstLog' = saveLog
    /\ saveLog' = <<>>
    /\ idx' = 1
    /\ saved_count' = 0
    /\ UNCHANGED <<pc, products, store, sinkMode, session, crawl, unit>>

\* the second call returns saved_count
SaveReturn ==
    /\ pc = "Save"
    /\ idx > Len(products)
    /\ callNo = 2
    /\ pc' = "Returned"
    /\ UNCHANGED <<products, idx, saved_count, store, sinkMode, saveLog,
                   harness, unit, session, crawl>>

NextSave == SaveSkip \/ SaveUpsertOk \/ SaveUpsertRaise \/ SaveAgain \/ SaveReturn

SpecSave == InitSave /\ [][NextSave]_vars

-----------------------------------------------------------------------------
(* Properties of save_to_database, checked under SpecSave *)

\* line 727: the for loop has ended and saved_count is about to be returned
LoopEnded == pc = "Save" /\ idx > Len(products)

\* a record carries a conflict key: product_url is present and not empty
KeyedByUrl(p) == "product_url" \in DOMAIN p /\ p.product_url # ""

CountOutcome(log, o) == Cardinality({i \in 1..Len(log) : log[i].outcome = o})

\* C1: save_to_database isolates per-record persistence failures: whatever
\* upserts raise, the call raises nothing, every record of the batch is still
\* processed in batch order (every keyed one is attempted), and the count
\* returned is exactly the number of upserts that completed.
C1_FailureIsolation ==
    /\ pc # "Raised"
    /\ Len(saveLog) = idx - 1
    /\ \A i \in 1..Len(saveLog) :
          /\ saveLog[i].product = products[i]
          /\ KeyedByUrl(products[i]) => saveLog[i].outcome \in {"ok", "error"}
    /\ saved_count = CountOutcome(saveLog, "ok")
    /\ LoopEnded => Len(saveLog) = Len(products)

\* a batch of N >= 2 keyed records whose first upsert raised returns N-1
C1_Witness ==
    /\ LoopEnded
    /\ Len(products) >= 2
    /\ \A i \in 1..Len(products) : KeyedByUrl(products[i])
    /\ saveLog[1].outcome = "error"
    /\ CountOutcome(saveLog, "error") = 1
    /\ saved_count = Len(products) - 1

\* C2: a record whose product_url is absent or empty never reaches the sink:
\* its outcome is a skip (neither an upsert nor an error), it adds nothing to
\* saved_count or to the table, and the records after it are still processed.
C2_SkipWithoutKey ==
    /\ \A i \in 1..Len(saveLog) :
          ~KeyedByUrl(saveLog[i].product) => saveLog[i].outcome = "skip"
    /\ saved_count <=
          Cardinality({i \in 1..Len(saveLog) : KeyedByUrl(products[i])})
    /\ \A r \in 1..Len(store) : KeyedByUrl(store[r])
    /\ LoopEnded => Len(saveLog) = Len(products)

\* a record without key is skipped and the keyed record after it is written
C2_Witness ==
    /\ LoopEnded
    /\ Len(products) >= 2
    /\ ~KeyedByUrl(products[1])
    /\ saveLog[1].outcome = "skip"
    /\ saveLog[2].outcome = "ok"
    /\ saved_count = 1

\* C3 as stated: when the second of two identical calls has ended, the store
\* is what it was when the first call returned.
C3_Original ==
    (LoopEnded /\ callNo = 2) => store = firstStore

\* C3 as amended: the second call leaves the store unchanged when each record
\* has the same outcome (written, raised or skipped) in both calls.
C3_Idempotent ==
    (LoopEnded /\ callNo = 2 /\ saveLog = firstLog) => store = firstStore

\* both calls wrote two different records sharing one key
C3_Witness ==
    /\ LoopEnded
    /\ callNo = 2
    /\ saveLog = firstLog
    /\ Len(products) >= 2
    /\ products[1] # products[2]
    /\ KeyedByUrl(products[1])
    /\ Get(products[1], "product_url") = Get(products[2], "product_url")
    /\ saveLog[1].outcome = "ok"
    /\ saveLog[2].outcome = "ok"
    /\ store = firstStore

\* every outcome since the first call began
Written == firstLog \o saveLog

WrittenKeys ==
    {Written[i].product.product_url :
        i \in {j \in 1..Len(Written) : Written[j].outcome = "ok"}}

\* the most recent successfully written record carrying key k
LastWritten(k) ==
    LET ok == {j \in 1..Len(Written) :
                  Written[j].outcome = "ok" /\ Written[j].product.product_url = k}
        last == CHOOSE j \in ok : \A m \in ok : m <= j
    IN  Written[last].product

UniqueKeys ==
    \A a, b \in 1..Len(store) :
        store[a].product_url = store[b].product_url => a = b

\* C4 as stated: at most one row per product_url, and the row of a written
\* key is exactly the most recent successfully written record with that key.
C4_Original ==
    /\ UniqueKeys
    /\ \A k \in WrittenKeys :
          \E r \in 1..Len(store) :
              /\ store[r].product_url = k
              /\ DOMAIN store[r] = DOMAIN LastWritten(k)
              /\ \A f \in DOMAIN store[r] : store[r][f] = LastWritten(k)[f]

\* C4 as amended: at most one row per product_url, and every field the most
\* recent successfully written record carries has that record's value in the
\* row; a field that record lacks may survive from an older write.
C4_LatestFieldsWin ==
    /\ UniqueKeys
    /\ \A k \in WrittenKeys :
          \E r \in 1..Len(store) :
              /\ store[r].product_url = k
              /\ \A f \in DOMAIN LastWritten(k) :
                    f \in DOMAIN store[r] /\ store[r][f] = LastWritten(k)[f]

\* a row with a price was overwritten by a record with another price
C4_Witness ==
    /\ LoopEnded
    /\ Len(store) = 1
    /\ Len(saveLog) >= 2
    /\ saveLog[1].outcome = "ok"
    /\ saveLog[2].outcome = "ok"
    /\ "price" \in DOMAIN saveLog[1].product
    /\ "price" \in DOMAIN saveLog[2].product
    /\ saveLog[1].product.price = 1
    /\ saveLog[2].product.price = 2
    /\ store[1].price = 2

-----------------------------------------------------------------------------
(* run and scrape_category *)

\* the first two entries of CATEGORIES, in dict order
Categories == <<"meat_seafood", "deli">>

NumWaitSelectors == 4       \* len(wait_selectors)
ScrollSteps == 8            \* for i in range(8)
NumProductSelectors == 10   \* len(product_selectors)

MaxCards == 2     \* most containers one primary selector returns
MaxLinks == 2     \* most links the link-traversal query returns

\* driver calls outside any inner try: a raise there reaches the
\* `except Exception` at the end of scrape_category
RaisingPhases == {"Navigating", "ChallengeCheck", "ContentWait", "ScrollExpand"}

\* lines 693-698: print the error and fall through to `return products`
OnCategoryException_Propagate == "Aborted"

OnCategoryException == "Done"

Init ==
    /\ pc = "Start"
    /\ products = <<>>
    /\ idx = 0
    /\ saved_count = 0
    /\ store = <<>>
    /\ sinkMode \in SinkModes
    /\ saveLog = <<>>
    /\ callNo = 1
    /\ firstStore = <<>>
    /\ firstLog = <<>>
    /\ driver = "none"
    /\ detailsOn \in BOOLEAN
    /\ catIdx = 0
    /\ all_products = <<>>
    /\ visited = <<>>
    /\ offered = 0
    /\ IdleCrawl
    /\ IdleUnit

\* self.driver = self.create_driver()
LaunchBrowser ==
    /\ pc = "Start"
    /\ driver' = "live"
    /\ pc' = "OpenHome"
    /\ UNCHANGED <<products, idx, saved_count, store, sinkMode, saveLog, harness, unit,
                   detailsOn, catIdx, all_products, visited, offered, crawl>>

\* create_driver raises: self.driver stays None, the finally quits nothing
LaunchFails ==
    /\ pc = "Start"
    /\ pc' = "Aborted"
    /\ UNCHANGED <<products, idx, saved_count, store, sinkMode, saveLog, harness, unit,
                   session, crawl>>

\* driver.get("https://www.costco.com") and the popup loop (its own bare except)
OpenHome ==
    /\ pc = "OpenHome"
    /\ pc' = "SetWarehouse"
    /\ UNCHANGED <<products, idx, saved_count, store, sinkMode, saveLog, harness, unit,
                   session, crawl>>

\* the finally clause left out
AfterFinally_Skip(d) == d

\* finally: if self.driver: self.driver.quit()
AfterFinally(d) == IF d # "none" THEN "quit" ELSE d

\* the first driver.get raises: finally quits the driver, the exception leaves run
OpenHomeFails ==
    /\ pc = "OpenHome"
    /\ driver' = AfterFinally(driver)
    /\ pc' = "Aborted"
    /\ UNCHANGED <<products, idx, saved_count, store, sinkMode, saveLog, harness, unit,
                   detailsOn, catIdx, all_products, visited, offered, crawl>>

\* self.set_warehouse(WAREHOUSE_ZIP): returns on every path; the flag it may
\* set, self.warehouse_set, is read nowhere
SetWarehouse ==
    /\ pc = "SetWarehouse"
    /\ pc' = "CategoryLoop"
    /\ UNCHANGED <<products, idx, saved_count, store, sinkMode, saveLog, harness, unit,
                   session, crawl>>

\* the for loop takes the next category and calls scrape_category
EnterCategory ==
    /\ pc = "CategoryLoop"
    /\ catIdx < Len(Categories)
    /\ catIdx' = catIdx + 1
    /\ visited' = Append(visited, Categories[catIdx + 1])
    /\ products' = <<>>
    /\ idx' = 0
    /\ product_cards' = <<>>
    /\ links' = <<>>
    /\ seen_urls' = {}
    /\ product_loaded' = FALSE
    /\ page_content' = "unread"
    /\ page_marker' = FALSE
    /\ reloads' = 0
    /\ graceApplied' = FALSE
    /\ pc' = "Navigating"
    /\ UNCHANGED <<saved_count, store, sinkMode, saveLog, harness, unit, driver,
                   detailsOn, all_products, offered>>

\* the for loop is exhausted: on to the finally
LeaveLoop ==
    /\ pc = "CategoryLoop"
    /\ catIdx >= Len(Categories)
    /\ pc' = "Quit"
    /\ UNCHANGED <<products, idx, saved_count, store, sinkMode, saveLog, harness, unit,
                   session, crawl>>

\* finally: if self.driver: self.driver.quit(); then the final summary
QuitDriver ==
    /\ pc = "Quit"
    /\ driver' = AfterFinally(driver)
    /\ pc' = "Summary"
    /\ UNCHANGED <<products, idx, saved_count, store, sinkMode, saveLog, harness, unit,
                   detailsOn, catIdx, all_products, visited, offered, crawl>>

\* self.driver.get(url); time.sleep(5): the page served may be a challenge page
Navigate ==
    /\ pc = "Navigating"
    /\ \E m \in BOOLEAN : page_marker' = m
    /\ pc' = "ChallengeCheck"
    /\ UNCHANGED <<products, idx, saved_count, store, sinkMode, saveLog, harness, unit,
                   session, product_cards, links, seen_urls, product_loaded,
                   page_content, reloads, graceApplied>>

\* a driver call of these phases raises
CrawlRaises ==
    /\ pc \in RaisingPhases
    /\ pc = "ContentWait" => idx <= NumWaitSelectors
    /\ pc' = OnCategoryException
    /\ UNCHANGED <<products, idx, saved_count, store, sinkMode, saveLog, harness, unit,
                   session, crawl>>

\* page_source holds none of "access denied", "robot", "captcha"
ChallengeClear ==
    /\ pc = "ChallengeCheck"
    /\ ~page_marker
    /\ page_content' = "clean"
    /\ pc' = "ContentWait"
    /\ idx' = 1
    /\ UNCHANGED <<products, saved_count, store, sinkMode, saveLog, harness, unit,
                   session, product_cards, links, seen_urls, product_loaded,
                   page_marker, reloads, graceApplied>>

\* where the crawl goes after the refresh: page_source is not read again
AfterReload_Recheck == "ChallengeCheck"

AfterReload == "ContentWait"

\* a marker is found: sleep 10, driver.refresh(), sleep 5
ChallengeReload ==
    /\ pc = "ChallengeCheck"
    /\ page_marker
    /\ page_content' = "challenge"
    /\ reloads' = reloads + 1
    /\ \E m \in BOOLEAN : page_marker' = m
    /\ pc' = AfterReload
    /\ idx' = 1
    /\ UNCHANGED <<products, saved_count, store, sinkMode, saveLog, harness, unit,
                   session, product_cards, links, seen_urls, product_loaded,
                   graceApplied>>

\* WebDriverWait(...).until(...) finds the element: product_loaded, break
WaitFound ==
    /\ pc = "ContentWait"
    /\ idx <= NumWaitSelectors
    /\ product_loaded' = TRUE
    /\ pc' = "ScrollExpand"
    /\ idx' = 0
    /\ UNCHANGED <<products, saved_count, store, sinkMode, saveLog, harness, unit,
                   session, product_cards, links, seen_urls, page_content,
                   page_marker, reloads, graceApplied>>

\* TimeoutException: continue with the next wait selector
WaitTimeout ==
    /\ pc = "ContentWait"
    /\ idx <= NumWaitSelectors
    /\ idx' = idx + 1
    /\ UNCHANGED <<pc, products, saved_count, store, sinkMode, saveLog, harness, unit,
                   session, crawl>>

\* where the crawl goes when every wait selector timed out
AfterReadinessTimeouts_HardGate == "Done"

AfterReadinessTimeouts == "ScrollExpand"

\* if not product_loaded: time.sleep(5)
GraceDelay ==
    /\ pc = "ContentWait"
    /\ idx > NumWaitSelectors
    /\ ~product_loaded
    /\ graceApplied' = TRUE
    /\ pc' = AfterReadinessTimeouts
    /\ idx' = 0
    /\ UNCHANGED <<products, saved_count, store, sinkMode, saveLog, harness, unit,
                   session, product_cards, links, seen_urls, product_loaded,
                   page_content, page_marker, reloads>>

\* the scroll loop ends after range(8)
ScrollDone_Early(i) == i >= 1

ScrollDone(i) == i >= ScrollSteps

\* window.scrollBy(0, window.innerHeight); time.sleep(0.5)
ScrollStep ==
    /\ pc = "ScrollExpand"
    /\ ~ScrollDone(idx)
    /\ idx' = idx + 1
    /\ UNCHANGED <<pc, products, saved_count, store, sinkMode, saveLog, harness, unit,
                   session, crawl>>

\* window.scrollTo(0, 0); time.sleep(1).  page_content and product_loaded
\* were last read at lines 541 and 568, and the page is not inspected for
\* markers again: they are dropped here, with the grace flag
ScrollReset ==
    /\ pc = "ScrollExpand"
    /\ ScrollDone(idx)
    /\ pc' = "ContainerDiscovery"
    /\ idx' = 1
    /\ product_loaded' = FALSE
    /\ graceApplied' = FALSE
    /\ page_content' = "unread"
    /\ page_marker' = FALSE
    /\ UNCHANGED <<products, saved_count, store, sinkMode, saveLog, harness, unit,
                   session, product_cards, links, seen_urls, reloads>>

\* container handles: the i-th element a primary selector matched, or the
\* ancestor div reached from the link with the given href
TileCard(i) == [kind |-> "tile", ref |-> ToString(i)]
LinkCard(href) == [kind |-> "link", ref |-> href]

\* the for loop over product_selectors has ended without a break
SelectorsExhausted_Early(i) == i > 1

SelectorsExhausted(i) == i > NumProductSelectors

\* find_elements(By.CSS_SELECTOR, selector) returns n > 0 cards:
\* product_cards = cards; idx is the position of used_selector
PrimaryMatch ==
    /\ pc = "ContainerDiscovery"
    /\ idx <= NumProductSelectors
    /\ \E n \in 1..MaxCards : product_cards' = [i \in 1..n |-> TileCard(i)]
    /\ pc' = "ContainerFound"
    /\ UNCHANGED <<products, idx, saved_count, store, sinkMode, saveLog, harness, unit,
                   session, links, seen_urls, product_loaded, page_content,
                   page_marker, reloads, graceApplied>>

\* used_selector = selector; print; break: on to the card loop
PrimaryBreak ==
    /\ pc = "ContainerFound"
    /\ pc' = "PerItemExtraction"
    /\ idx' = 1
    /\ UNCHANGED <<products, saved_count, store, sinkMode, saveLog, harness, unit,
                   session, crawl>>

\* the selector matches nothing, or find_elements raises: next selector
PrimaryMiss ==
    /\ pc = "ContainerDiscovery"
    /\ idx <= NumProductSelectors
    /\ idx' = idx + 1
    /\ UNCHANGED <<pc, products, saved_count, store, sinkMode, saveLog, harness, unit,
                   session, crawl>>

\* what a link of the page shows to the traversal when its iteration reads
\* it: its href, and whether get_attribute raises ("stale"), the ancestor
\* lookup raises ("none") or the ancestor container is found ("ok")
Hrefs == {"https://www.costco.com/p/1", "https://www.costco.com/p/2"}
LinkElems == [href : Hrefs, anc : {"ok", "none", "stale"}]

\* a link handle whose attributes have not been read yet
UnreadLink == [href |-> "unread", anc |-> "unread"]

\* if not product_cards: links = find_elements(By.CSS_SELECTOR, "a[href*='/p/']")
\* returns n element handles
FindLinks ==
    /\ pc = "ContainerDiscovery"
    /\ SelectorsExhausted(idx)
    /\ \E n \in 0..MaxLinks : links' = [i \in 1..n |-> UnreadLink]
    /\ seen_urls' = {}
    /\ pc' = "LinkTraversal"
    /\ idx' = 1
    /\ UNCHANGED <<products, saved_count, store, sinkMode, saveLog, harness, unit,
                   session, product_cards, product_loaded, page_content,
                   page_marker, reloads, graceApplied>>

\* the link query raises: "Alternate approach failed", product_cards stays empty
FindLinksFails ==
    /\ pc = "ContainerDiscovery"
    /\ SelectorsExhausted(idx)
    /\ pc' = "NoProducts"
    /\ UNCHANGED <<products, idx, saved_count, store, sinkMode, saveLog, harness, unit,
                   session, crawl>>

\* `href not in seen_urls` (href is never empty for a[href*='/p/'])
IsNewTarget_NoDedup(href, seen) == TRUE

IsNewTarget(href, seen) == href \notin seen

\* one iteration of `for link in links`: the link's attributes are read
LinkStep ==
    /\ pc = "LinkTraversal"
    /\ idx <= Len(links)
    /\ \E l \in LinkElems :
          LET fresh == l.anc # "stale" /\ IsNewTarget(l.href, seen_urls)
          IN  /\ links' = [links EXCEPT ![idx] = l]
              /\ seen_urls' = IF fresh THEN seen_urls \cup {l.href} ELSE seen_urls
              /\ product_cards' = IF fresh /\ l.anc = "ok"
                                  THEN Append(product_cards, LinkCard(l.href))
                                  ELSE product_cards
    /\ idx' = idx + 1
    /\ UNCHANGED <<pc, products, saved_count, store, sinkMode, saveLog, harness, unit,
                   session, product_loaded, page_content, page_marker,
                   reloads, graceApplied>>

\* the link loop has ended; links and seen_urls are not read again
LinkDone ==
    /\ pc = "LinkTraversal"
    /\ idx > Len(links)
    /\ pc' = IF product_cards # <<>> THEN "PerItemExtraction" ELSE "NoProducts"
    /\ idx' = 1
    /\ links' = <<>>
    /\ seen_urls' = {}
    /\ UNCHANGED <<products, saved_count, store, sinkMode, saveLog, harness, unit,
                   session, product_cards, product_loaded, page_content,
                   page_marker, reloads, graceApplied>>

\* if not product_cards: debug dump (inside its own try), return products
NoProductsReturn ==
    /\ pc = "NoProducts"
    /\ pc' = "Done"
    /\ UNCHANGED <<products, idx, saved_count, store, sinkMode, saveLog, harness, unit,
                   session, crawl>>

\* the debug dump itself raises (save_screenshot, find_elements, open):
\* `except Exception as debug_err` prints, then `return products`
NoProductsDumpFails ==
    /\ pc = "NoProducts"
    /\ pc' = "Done"
    /\ UNCHANGED <<products, idx, saved_count, store, sinkMode, saveLog, harness, unit,
                   session, crawl>>

\* run calls save_to_database whatever the category returned
SaveDue_Always(prods) == TRUE

Description1 == "PRODUCT DETAILS: Calories 120"

\* the dicts scrape_product_card returns for a card of the category:
\* name resolved, product_url resolved or not
CardProducts(category) ==
    { [category |-> category, name |-> Name1, product_url |-> Url1],
      [category |-> category, name |-> Name1] }

\* what a container shows to scrape_product_card when its iteration reads
\* it: a name that resolves ("named"), no resolvable name ("nameless"), or
\* an element whose lookup raises something the inner loops do not catch,
\* before or after the name resolved ("raises")
CardShows == {"named", "nameless", "raises"}

\* the container handle, with what it showed when it was read
ReadCard(card, shown) == [kind |-> card.kind, ref |-> card.ref, shown |-> shown]

\* the card loop's position after a container that yielded no product
AfterCardSkipped_Break(i, n) == n + 1

AfterCardSkipped(i, n) == i + 1

\* scrape_product_card returns a product: products.append(product)
ExtractRecord ==
    /\ pc = "PerItemExtraction"
    /\ idx <= Len(product_cards)
    /\ \E product \in CardProducts(Categories[catIdx]) :
          products' = Append(products, product)
    /\ product_cards' = [product_cards EXCEPT ![idx] = ReadCard(@, "named")]
    /\ idx' = idx + 1
    /\ UNCHANGED <<pc, saved_count, store, sinkMode, saveLog, harness, unit,
                   session, links, seen_urls, product_loaded, page_content,
                   page_marker, reloads, graceApplied>>

\* scrape_product_card returns None (`if not name_found`, or its outer
\* `except Exception`), or raises into the loop's own try: next container
ExtractSkip ==
    /\ pc = "PerItemExtraction"
    /\ idx <= Len(product_cards)
    /\ \E shown \in CardShows \ {"named"} :
          product_cards' = [product_cards EXCEPT ![idx] = ReadCard(@, shown)]
    /\ idx' = AfterCardSkipped(idx, Len(product_cards))
    /\ UNCHANGED <<pc, products, saved_count, store, sinkMode, saveLog, harness, unit,
                   session, links, seen_urls, product_loaded, page_content,
                   page_marker, reloads, graceApplied>>

\* the detail loop entered whatever SCRAPE_PRODUCT_DETAILS says
AfterExtraction_Always(details, prods) ==
    IF prods # <<>> THEN "DetailFetch" ELSE "Done"

\* where the crawl goes when the card loop has ended
AfterExtraction(details, prods) ==
    IF details /\ prods # <<>> THEN "DetailFetch" ELSE "Done"

\* the card loop has ended; product_cards is not read again
ExtractDone ==
    /\ pc = "PerItemExtraction"
    /\ idx > Len(product_cards)
    /\ pc' = AfterExtraction(detailsOn, products)
    /\ idx' = 1
    /\ product_cards' = <<>>
    /\ UNCHANGED <<products, saved_count, store, sinkMode, saveLog, harness, unit,
                   session, links, seen_urls, product_loaded, page_content,
                   page_marker, reloads, graceApplied>>

\* scrape_product_details on a product without product_url: returned as is
DetailNoUrl ==
    /\ pc = "DetailFetch"
    /\ idx <= Len(products)
    /\ ~Truthy(Get(products[idx], "product_url"))
    /\ idx' = idx + 1
    /\ UNCHANGED <<pc, products, saved_count, store, sinkMode, saveLog, harness, unit,
                   session, crawl>>

\* the dict after scrape_product_details wrote the category key as well
Enriched_Recategorised(p) ==
    [k \in DOMAIN p \cup {"description"} |->
        IF k = "description" THEN Description1
        ELSE IF k = "category" THEN "details" ELSE p[k]]

\* the dict after scrape_product_details ran to its end on a page that
\* gives a description: product['description'] = ...
Enriched(p) ==
    [k \in DOMAIN p \cup {"description"} |->
        IF k = "description" THEN Description1 ELSE p[k]]

\* the dict after scrape_product_details set the description (line 333)
\* and a later lookup on the page raised
PartlyEnriched(p) ==
    [k \in DOMAIN p \cup {"description"} |->
        IF k = "description" THEN Description1 ELSE p[k]]

\* the detail page is loaded and parsed: the dict in the list is enriched
DetailEnrich ==
    /\ pc = "DetailFetch"
    /\ idx <= Len(products)
    /\ Truthy(Get(products[idx], "product_url"))
    /\ products' = [products EXCEPT ![idx] = Enriched(@)]
    /\ idx' = idx + 1
    /\ UNCHANGED <<pc, saved_count, store, sinkMode, saveLog, harness, unit,
                   session, crawl>>

\* driver.get(product_url) raises before the dict is touched: the
\* `except Exception` of scrape_product_details
DetailFails ==
    /\ pc = "DetailFetch"
    /\ idx <= Len(products)
    /\ Truthy(Get(products[idx], "product_url"))
    /\ pc' = "DetailCaught"
    /\ UNCHANGED <<products, idx, saved_count, store, sinkMode, saveLog, harness, unit,
                   session, crawl>>

\* a lookup raises something other than NoSuchElementException after the
\* description was set: the same `except Exception`, the dict already changed
DetailPartial ==
    /\ pc = "DetailFetch"
    /\ idx <= Len(products)
    /\ Truthy(Get(products[idx], "product_url"))
    /\ products' = [products EXCEPT ![idx] = PartlyEnriched(@)]
    /\ pc' = "DetailCaught"
    /\ UNCHANGED <<idx, saved_count, store, sinkMode, saveLog, harness, unit,
                   session, crawl>>

\* the except clause prints the error; `return product`; next product
DetailCaught ==
    /\ pc = "DetailCaught"
    /\ pc' = "DetailFetch"
    /\ idx' = idx + 1
    /\ UNCHANGED <<products, saved_count, store, sinkMode, saveLog, harness, unit,
                   session, crawl>>

\* the detail loop has ended
DetailDone ==
    /\ pc = "DetailFetch"
    /\ idx > Len(products)
    /\ pc' = "Done"
    /\ UNCHANGED <<products, idx, saved_count, store, sinkMode, saveLog, harness, unit,
                   session, crawl>>

\* run calls save_to_database(products) when the category returned records
SaveDue_Never(prods) == FALSE

SaveDue(prods) == prods # <<>>

\* scrape_category returns and its locals are gone (the per-category page
\* state and counters with them); all_products.extend(products); if products: save
CategoryReturn ==
    /\ pc = "Done"
    /\ all_products' = all_products \o products
    /\ IF SaveDue(products)
       THEN /\ pc' = "Save"
            /\ idx' = 1
            /\ saved_count' = 0
            /\ saveLog' = <<>>
            /\ offered' = offered + Len(products)
       ELSE /\ pc' = "Pacing"
            /\ UNCHANGED <<idx, saved_count, saveLog, offered>>
    /\ product_cards' = <<>>
    /\ links' = <<>>
    /\ seen_urls' = {}
    /\ product_loaded' = FALSE
    /\ page_content' = "unread"
    /\ page_marker' = FALSE
    /\ reloads' = 0
    /\ graceApplied' = FALSE
    /\ UNCHANGED <<products, store, sinkMode, harness, unit, driver, detailsOn,
                   catIdx, visited>>

\* save_to_database returns saved_count to run, which drops it; the call's
\* locals and per-record outcomes are gone with the call
SaveFinish ==
    /\ pc = "Save"
    /\ idx > Len(products)
    /\ pc' = "Pacing"
    /\ saved_count' = 0
    /\ saveLog' = <<>>
    /\ UNCHANGED <<products, idx, store, sinkMode, harness, unit, session, crawl>>

\* if i < len(CATEGORIES) - 1: time.sleep(random.uniform(5, 10)); next iteration
Pacing ==
    /\ pc = "Pacing"
    /\ pc' = "CategoryLoop"
    /\ UNCHANGED <<products, idx, saved_count, store, sinkMode, saveLog, harness, unit,
                   session, crawl>>

Next ==
    \/ LaunchBrowser \/ LaunchFails \/ OpenHome \/ OpenHomeFails \/ SetWarehouse
    \/ EnterCategory \/ LeaveLoop \/ QuitDriver
    \/ Navigate \/ CrawlRaises \/ ChallengeClear \/ ChallengeReload
    \/ WaitFound \/ WaitTimeout \/ GraceDelay
    \/ ScrollStep \/ ScrollReset
    \/ PrimaryMatch \/ PrimaryBreak \/ PrimaryMiss \/ FindLinks \/ FindLinksFails
    \/ LinkStep \/ LinkDone \/ NoProductsReturn \/ NoProductsDumpFails
    \/ ExtractRecord \/ ExtractSkip \/ ExtractDone
    \/ DetailNoUrl \/ DetailEnrich \/ DetailFails \/ DetailPartial \/ DetailCaught
    \/ DetailDone
    \/ CategoryReturn
    \/ SaveSkip \/ SaveUpsertOk \/ SaveUpsertRaise \/ SaveFinish
    \/ Pacing

Spec == Init /\ [][Next]_vars

\* the single thread of control always takes its next step: every wait is
\* bounded by a timeout or a fixed sleep
FairSpec == Spec /\ WF_vars(Next)

-----------------------------------------------------------------------------
(* Properties of run and scrape_category *)

\* the positions inside scrape_category
CrawlPcs == {"Navigating", "ChallengeCheck", "ContentWait", "ScrollExpand",
             "ContainerDiscovery", "ContainerFound", "LinkTraversal",
             "NoProducts", "PerItemExtraction", "DetailFetch", "DetailCaught", "Done"}

\* every record extracted so far in the run, in extraction order
Extracted == IF pc \in CrawlPcs THEN all_products \o products ELSE all_products

C5_Inv ==
    /\ offered <= Len(Extracted)
    /\ \A i \in (offered + 1)..Len(Extracted) :
          Extracted[i].category = Categories[catIdx]
    /\ pc \in {"Navigating", "CategoryLoop", "Pacing", "Quit", "Summary", "Save"}
          => offered = Len(all_products)
    /\ pc = "Save" =>
          /\ Len(products) <= Len(all_products)
          /\ products = SubSeq(all_products,
                               Len(all_products) - Len(products) + 1,
                               Len(all_products))
          /\ \A i \in 1..Len(products) :
                products[i].category = Categories[catIdx]

C5_Step ==
    /\ (pc' = "Save" /\ pc # "Save") => pc = "Done"
    /\ offered' # offered => (pc = "Done" /\ offered' = offered + Len(products))

\* C5: streaming persistence.  The records of a category are handed to
\* save_to_database when scrape_category has returned (detail fetch included)
\* and before the next category's crawl begins: the records not yet offered
\* to the store all belong to the category being crawled.
C5_Streaming == []C5_Inv /\ [][C5_Step]_vars

\* the second category holds unoffered records while all records of the
\* first have been offered
C5_Witness ==
    /\ pc = "PerItemExtraction"
    /\ catIdx = 2
    /\ products # <<>>
    /\ all_products # <<>>
    /\ offered = Len(all_products)

IsPrefix(s, t) == Len(s) <= Len(t) /\ s = SubSeq(t, 1, Len(s))

\* C6: once the browser session exists, no failure inside a category aborts
\* the run: the categories are visited once each in the configured order,
\* the run never aborts after the loop has begun, and it reaches its summary
\* (with every category visited).
C6_NoAbort ==
    /\ [](IsPrefix(visited, Categories) /\ Len(visited) = catIdx)
    /\ [](catIdx >= 1 => pc # "Aborted")
    /\ [](pc = "Summary" => visited = Categories)
    /\ ((pc = "CategoryLoop" /\ catIdx = 0) ~> (pc = "Summary"))

\* the last category raised while scrolling (the grace flag is still set),
\* after the first category had yielded records
C6_Witness ==
    /\ pc = "Done"
    /\ catIdx = Len(Categories)
    /\ graceApplied
    /\ products = <<>>
    /\ all_products # <<>>

\* the phase of the crawl state machine a position belongs to, by its order
Rank(p) ==
    CASE p = "Navigating" -> 1
      [] p = "ChallengeCheck" -> 2
      [] p = "ContentWait" -> 3
      [] p = "ScrollExpand" -> 4
      [] p \in {"ContainerDiscovery", "ContainerFound", "LinkTraversal",
                "NoProducts"} -> 5
      [] p = "PerItemExtraction" -> 6
      [] p \in {"DetailFetch", "DetailCaught"} -> 7
      [] p = "Done" -> 8

C7_Step ==
    /\ (pc \in CrawlPcs /\ pc' \in CrawlPcs) =>
          /\ catIdx' = catIdx
          /\ Rank(pc) <= Rank(pc')
          /\ Rank(pc') <= Rank(pc) + 1 \/ pc' = "Done"
    /\ (pc' = "Navigating" /\ pc # "Navigating") => pc = "CategoryLoop"
    /\ (pc \in CrawlPcs /\ pc' \notin CrawlPcs) => pc = "Done"
    /\ (pc = "ScrollExpand" /\ pc' = "ScrollExpand") =>
          (idx < ScrollSteps /\ idx' = idx + 1)
    /\ (pc = "ScrollExpand" /\ pc' = "ContainerDiscovery") => idx = ScrollSteps
    /\ (pc = pc' /\ pc \in {"LinkTraversal", "PerItemExtraction", "DetailFetch"})
          => idx' = idx + 1

\* C7: a category crawl moves through its phases forward only (Navigating,
\* ChallengeCheck, ContentWait, ScrollExpand with exactly ScrollSteps steps
\* before the reset, ContainerDiscovery, PerItemExtraction, DetailFetch,
\* Done), one link, container or detail page per step; no phase is entered
\* again, so no container is queried once detail fetching has begun.
C7_PhasesForward == [][C7_Step]_vars

\* a crawl that went through every phase: its first record was enriched on
\* its detail page
C7_Witness ==
    /\ pc = "Done"
    /\ products # <<>>
    /\ "description" \in DOMAIN products[1]

C8_Inv ==
    /\ reloads <= 1
    /\ pc = "ContentWait" =>
          /\ page_content \in {"clean", "challenge"}
          /\ reloads = IF page_content = "challenge" THEN 1 ELSE 0

C8_Step ==
    /\ reloads' > reloads =>
          /\ pc = "ChallengeCheck"
          /\ page_marker
          /\ reloads = 0
          /\ pc' = "ContentWait"
    /\ (pc = "ChallengeCheck" /\ pc' = "ContentWait") =>
          reloads' = IF page_marker THEN 1 ELSE 0
    /\ reloads' < reloads => pc = "Done"

\* C8: single-retry challenge policy.  Within one category crawl the page is
\* reloaded at most once, exactly when the first load shows a marker, and
\* the crawl then goes on to ContentWait whatever the reloaded page shows.
C8_SingleRetry == []C8_Inv /\ [][C8_Step]_vars

\* the reloaded page still shows a marker and the crawl is in ContentWait
C8_Witness ==
    /\ pc = "ContentWait"
    /\ reloads = 1
    /\ page_marker

C9_Inv ==
    /\ pc = "ContentWait" => (~product_loaded /\ ~graceApplied)
    /\ pc = "ScrollExpand" => (graceApplied <=> ~product_loaded)

C9_Step ==
    /\ (pc = "ContentWait" /\ pc' = "ContentWait") =>
          (idx <= NumWaitSelectors /\ idx' = idx + 1)
    /\ (product_loaded' /\ ~product_loaded) =>
          (pc = "ContentWait" /\ idx <= NumWaitSelectors /\ pc' = "ScrollExpand")
    /\ (graceApplied' /\ ~graceApplied) =>
          (pc = "ContentWait" /\ idx = NumWaitSelectors + 1)
    /\ (pc = "ContentWait" /\ idx > NumWaitSelectors) =>
          (pc' = "ScrollExpand" /\ graceApplied')

\* C9: content readiness is advisory.  The wait selectors are polled in
\* order and polling stops at the first success; when all of them time out
\* the crawl goes on to ScrollExpand after the grace delay, which is applied
\* exactly when none succeeded.
C9_ReadinessAdvisory == []C9_Inv /\ [][C9_Step]_vars

\* every wait selector timed out and the crawl has finished scrolling
C9_Witness ==
    /\ pc = "ScrollExpand"
    /\ graceApplied
    /\ ~product_loaded
    /\ idx = ScrollSteps

NoDuplicates(s) == \A a, b \in 1..Len(s) : s[a] = s[b] => a = b

LinkHrefs(n) == {links[i].href : i \in 1..n}

\* link i is the first link with a readable href that carries its href
FirstOfTarget(i) ==
    /\ links[i].anc # "stale"
    /\ \A j \in 1..(i - 1) :
          links[j].anc # "stale" => links[j].href # links[i].href

\* the containers of the first n links: one for each first-of-its-target
\* link whose ancestor lookup succeeds, in link order
RECURSIVE ExpectedCards(_)
ExpectedCards(n) ==
    IF n = 0 THEN <<>>
    ELSE IF FirstOfTarget(n) /\ links[n].anc = "ok"
         THEN Append(ExpectedCards(n - 1), LinkCard(links[n].href))
         ELSE ExpectedCards(n - 1)

\* C10 as stated: when the link loop has ended there is exactly one
\* container per distinct href among the links found.
C10_Original ==
    (pc = "LinkTraversal" /\ idx > Len(links)) =>
        /\ NoDuplicates(product_cards)
        /\ Len(product_cards) = Cardinality(LinkHrefs(Len(links)))

\* C10 as amended: link traversal yields at most one container per distinct
\* href, in link order: exactly one for each href whose first readable link
\* has a container ancestor.  k unique links that all have a container
\* ancestor give k containers.
C10_LinkFallback ==
    pc = "LinkTraversal" =>
        /\ idx - 1 <= Len(links)
        /\ product_cards = ExpectedCards(idx - 1)
        /\ NoDuplicates(product_cards)
        /\ Len(product_cards) <= Cardinality(LinkHrefs(idx - 1))
        /\ (\A i \in 1..(idx - 1) : links[i].anc = "ok") =>
              Len(product_cards) = Cardinality(LinkHrefs(idx - 1))

\* two links with different hrefs, both with a container ancestor, gave two
\* containers
C10_Witness ==
    /\ pc = "LinkTraversal"
    /\ idx > Len(links)
    /\ Len(links) >= 2
    /\ \A i \in 1..Len(links) : links[i].anc = "ok"
    /\ Cardinality(LinkHrefs(Len(links))) = 2
    /\ Len(product_cards) = 2

-----------------------------------------------------------------------------
(* C11: a category page on which neither the primary selectors nor the   *)
(* link traversal find a container makes scrape_category return an empty *)
(* list without raising, also when the debug dump fails: no container is *)
(* extracted, no detail page is fetched, run issues no upsert for that    *)
(* category and goes on to the next category.                             *)
C11_Inv ==
    pc = "NoProducts" => /\ product_cards = <<>>
                         /\ products = <<>>
                         /\ catIdx \in 1..Len(Categories)

C11_Step ==
    /\ pc = "NoProducts" =>
          /\ pc' = "Done"
          /\ products' = <<>>
          /\ UNCHANGED <<store, saveLog, offered, all_products, catIdx>>
    /\ (pc = "Done" /\ products = <<>>) =>
          /\ pc' = "Pacing"
          /\ UNCHANGED <<store, saveLog, offered, all_products, catIdx>>

C11_NoContainers ==
    /\ []C11_Inv
    /\ [][C11_Step]_vars
    /\ \A c \in 1..(Len(Categories) - 1) :
          (pc = "NoProducts" /\ catIdx = c) ~> (pc = "Navigating" /\ catIdx = c + 1)
    /\ (pc = "NoProducts") ~> (pc = "Summary")

\* the first category has no container: every primary selector missed and
\* the link traversal ran to its end without appending one
C11_Witness ==
    /\ pc = "NoProducts"
    /\ catIdx = 1
    /\ products = <<>>
    /\ idx = 1

-----------------------------------------------------------------------------
(* C12: the card loop isolates failures per container.  The records of a  *)
(* category are exactly one per container whose extraction yielded a      *)
(* named product, appended in container order, each with the category    *)
(* being crawled; a container without a resolvable name, or one whose    *)
(* extraction raises, is skipped and the loop goes on to the next one.   *)
\* the containers among the first n that showed a resolvable name
NamedCards(n) == {i \in 1..n : product_cards[i].shown = "named"}

C12_Inv ==
    pc = "PerItemExtraction" =>
        /\ idx \in 1..(Len(product_cards) + 1)
        /\ \A i \in 1..Len(product_cards) :
              ("shown" \in DOMAIN product_cards[i]) <=> (i < idx)
        /\ Len(products) = Cardinality(NamedCards(idx - 1))
        /\ \A j \in 1..Len(products) :
              /\ products[j].category = Categories[catIdx]
              /\ Truthy(Get(products[j], "name"))

C12_Step ==
    (pc = "PerItemExtraction" /\ idx <= Len(product_cards)) =>
        /\ pc' = "PerItemExtraction"
        /\ idx' = idx + 1
        /\ IF product_cards'[idx].shown = "named"
           THEN /\ Len(products') = Len(products) + 1
                /\ SubSeq(products', 1, Len(products)) = products
                /\ products'[Len(products')].category = Categories[catIdx]
           ELSE products' = products

\* a save_to_database call in which every record is keyed and no upsert
\* raised counts every record
C12_SavedAll ==
    (pc = "Save" /\ idx > Len(products)
        /\ \A j \in 1..Len(saveLog) : saveLog[j].outcome = "ok") =>
        saved_count = Len(products)

C12_PerItemIsolation == [](C12_Inv /\ C12_SavedAll) /\ [][C12_Step]_vars

\* the first container was skipped and a later one still yielded the
\* category's only record
C12_Witness ==
    /\ pc = "PerItemExtraction"
    /\ idx > Len(product_cards)
    /\ Len(product_cards) >= 2
    /\ product_cards[1].shown \in {"nameless", "raises"}
    /\ product_cards[Len(product_cards)].shown = "named"
    /\ Len(products) = 1
    /\ products[1].category = "meat_seafood"

-----------------------------------------------------------------------------
(* C16: a record's category is set at card extraction and never changed: *)
(* the detail fetch and save_to_database leave category, name and        *)
(* product_url of every record as they are, and the row an upsert writes *)
(* carries the category that was being crawled when the record was       *)
(* extracted.                                                            *)
AfterExtractionPcs == {"DetailFetch", "DetailCaught", "Done", "Save"}

C16_Inv ==
    (pc \in CrawlPcs \/ pc = "Save") =>
        \A j \in 1..Len(products) : products[j].category = Categories[catIdx]

C16_Step ==
    /\ pc \in AfterExtractionPcs =>
          /\ Len(products') = Len(products)
          /\ \A j \in 1..Len(products) :
                /\ products'[j].category = products[j].category
                /\ products'[j].name = products[j].name
                /\ Get(products'[j], "product_url") = Get(products[j], "product_url")
    /\ (pc = "Save" /\ store' # store) =>
          \E r \in 1..Len(store') :
              /\ store'[r].product_url = products[idx].product_url
              /\ store'[r].category = Categories[catIdx]
              /\ store'[r].name = products[idx].name

C16_CategoryImmutable == []C16_Inv /\ [][C16_Step]_vars

\* a record of the second category, enriched on its detail page, has been
\* written under a key that a record of the first category carries too
C16_Witness ==
    /\ catIdx = 2
    /\ pc = "Save"
    /\ Len(store) = 1
    /\ store[1].category = "deli"
    /\ "description" \in DOMAIN store[1]
    /\ Len(all_products) >= 2
    /\ all_products[1].category = "meat_seafood"
    /\ KeyedByUrl(all_products[1])

-----------------------------------------------------------------------------
(* C17: when an exception occurs at any point while a record's detail    *)
(* page is fetched or parsed, the record keeps exactly the fields it had *)
(* after card extraction, and the detail loop goes on to the next        *)
(* record.                                                               *)
C17_Step ==
    /\ (pc = "DetailFetch" /\ pc' = "DetailCaught") => products' = products
    /\ pc = "DetailCaught" =>
          /\ pc' = "DetailFetch"
          /\ idx' = idx + 1
          /\ products' = products

C17_DetailFailureIsolation == [][C17_Step]_vars

-----------------------------------------------------------------------------
(* Text: a Python str is a TLA+ string, read character by character      *)
Char(s, i) == SubSeq(s, i, i)

Digit == {"0", "1", "2", "3", "4", "5", "6", "7", "8", "9"}

\* \s of the re module, for the characters the texts of the model use
Space == {" ", "\n", "\t"}

\* str.startswith(p), `p in s`
StartsWith(s, p) == Len(s) >= Len(p) /\ SubSeq(s, 1, Len(p)) = p
Contains(s, p) == \E i \in 1..(Len(s) + 1 - Len(p)) : SubSeq(s, i, i + Len(p) - 1) = p

\* str.replace(old, new), scanning from the left
RECURSIVE Replace(_, _, _)
Replace(s, old, new) ==
    IF Len(s) < Len(old) \/ old = "" THEN s
    ELSE IF StartsWith(s, old)
         THEN new \o Replace(SubSeq(s, Len(old) + 1, Len(s)), old, new)
         ELSE Char(s, 1) \o Replace(Tail(s), old, new)

\* str.strip()
RECURSIVE LStrip(_)
LStrip(s) == IF s # "" /\ Char(s, 1) \in Space THEN LStrip(Tail(s)) ELSE s
RECURSIVE RStrip(_)
RStrip(s) == IF s # "" /\ Char(s, Len(s)) \in Space
             THEN RStrip(SubSeq(s, 1, Len(s) - 1)) ELSE s
Strip(s) == RStrip(LStrip(s))

\* the position after the longest run of characters of `class` that starts
\* at position i of s (i itself when there is none): a greedy X*
RECURSIVE RunEnd(_, _, _)
RunEnd(s, i, class) ==
    IF i <= Len(s) /\ Char(s, i) \in class THEN RunEnd(s, i + 1, class) ELSE i

\* the digits of s without leading zeros ("0" when nothing else is left)
RECURSIVE NoLeadingZeros(_)
NoLeadingZeros(s) ==
    IF Len(s) > 1 /\ Char(s, 1) = "0" THEN NoLeadingZeros(Tail(s))
    ELSE IF s = "" THEN "0" ELSE s

RECURSIVE NoTrailingZeros(_)
NoTrailingZeros(s) ==
    IF Len(s) > 1 /\ Char(s, Len(s)) = "0"
    THEN NoTrailingZeros(SubSeq(s, 1, Len(s) - 1))
    ELSE IF s = "" THEN "0" ELSE s

\* float(s) for s of the shape the price pattern captures, written as
\* Python prints the float ("12" is 12.0); a comma makes float() raise
ValueError == "ValueError"
Float(s) ==
    IF Contains(s, ",") THEN ValueError
    ELSE LET dot == RunEnd(s, 1, Digit)
         IN  NoLeadingZeros(SubSeq(s, 1, dot - 1)) \o "."
                 \o NoTrailingZeros(SubSeq(s, dot + 1, Len(s)))

\* int(s) for a run of digits, written as Python prints the int
Int10(s) == NoLeadingZeros(s)

-----------------------------------------------------------------------------
(* extract_price *)
\* text.replace(',', '') left out
WithoutSeparators_Keep(s) == s

\* text.replace(',', '')
WithoutSeparators(s) == Replace(s, ",", "")

\* group(1) of r'\$?([\d,]+\.?\d*)' matched at position i of t, or None:
\* an optional "$", a greedy run of digits and commas, an optional ".", a
\* greedy run of digits (nothing after the first run can make it backtrack)
PriceMatchAt(t, i) ==
    LET j  == IF Char(t, i) = "$" THEN i + 1 ELSE i
        e1 == RunEnd(t, j, Digit \cup {","})
        e2 == IF e1 <= Len(t) /\ Char(t, e1) = "." THEN e1 + 1 ELSE e1
        e3 == RunEnd(t, e2, Digit)
    IN  IF e1 > j THEN SubSeq(t, j, e3 - 1) ELSE None

\* re.search: the match at the leftmost position that has one
RECURSIVE PriceSearch(_, _)
PriceSearch(t, i) ==
    IF i > Len(t) THEN None
    ELSE IF PriceMatchAt(t, i) # None THEN PriceMatchAt(t, i)
         ELSE PriceSearch(t, i + 1)

\* extract_price(text): None, the float, or ValueError when float() raises
extract_price(t) ==
    IF t = None \/ t = "" THEN None
    ELSE LET m == PriceSearch(WithoutSeparators(t), 1)
         IN  IF m = None THEN None ELSE Float(m)

-----------------------------------------------------------------------------
(* The nutrient patterns of scrape_product_details *)
UpperAZ == "ABCDEFGHIJKLMNOPQRSTUVWXYZ"
LowerAZ == "abcdefghijklmnopqrstuvwxyz"

\* str.lower()
LowerChar(c) ==
    IF \E i \in 1..26 : Char(UpperAZ, i) = c
    THEN Char(LowerAZ, CHOOSE i \in 1..26 : Char(UpperAZ, i) = c)
    ELSE c
RECURSIVE Lower(_)
Lower(s) == IF s = "" THEN "" ELSE LowerChar(Char(s, 1)) \o Lower(Tail(s))

\* the pieces the nutrient patterns are made of
Lit(s) == [k |-> "lit", s |-> s]          \* the literal text s
Star(c) == [k |-> "star", c |-> c]        \* c*   (greedy)
Plus(c) == [k |-> "plus", c |-> c]        \* c+   (greedy)
Cap == [k |-> "cap"]                      \* (\d+)
Opt(p) == [k |-> "opt", p |-> p]          \* (?:p)?
ColonSpace == {":"} \cup Space            \* [:\s]

\* the capture of pattern p matched at position i of s, or None.  Every
\* run in these patterns is followed by something that cannot start with
\* a character of the run, so a greedy run never has to give one back; an
\* optional group is tried first with, then without its content.
RECURSIVE MatchAt(_, _, _, _)
MatchAt(p, s, i, cap) ==
    IF p = <<>> THEN cap
    ELSE LET it == Head(p)
         IN  CASE it.k = "lit" ->
                    IF i + Len(it.s) - 1 <= Len(s) /\ SubSeq(s, i, i + Len(it.s) - 1) = it.s
                    THEN MatchAt(Tail(p), s, i + Len(it.s), cap) ELSE None
               [] it.k = "star" -> MatchAt(Tail(p), s, RunEnd(s, i, it.c), cap)
               [] it.k = "plus" ->
                    LET e == RunEnd(s, i, it.c)
                    IN  IF e > i THEN MatchAt(Tail(p), s, e, cap) ELSE None
               [] it.k = "cap" ->
                    LET e == RunEnd(s, i, Digit)
                    IN  IF e > i THEN MatchAt(Tail(p), s, e, SubSeq(s, i, e - 1))
                        ELSE None
               [] it.k = "opt" ->
                    LET with == MatchAt(it.p \o Tail(p), s, i, cap)
                    IN  IF with # None THEN with ELSE MatchAt(Tail(p), s, i, cap)

\* re.search(p, s).group(1), or None when p matches nowhere
RECURSIVE Search(_, _, _)
Search(p, s, i) ==
    IF i > Len(s) THEN None
    ELSE LET m == MatchAt(p, s, i, None)
         IN  IF m # None THEN m ELSE Search(p, s, i + 1)

\* a pattern `word[:\s]*(\d+)\s*u` and a pattern `(\d+)\s*u\s*word`
ValueAfter(word, u) == word \o <<Star(ColonSpace), Cap, Star(Space), Lit(u)>>
ValueBefore(word, u) == <<Cap, Star(Space), Lit(u), Star(Space)>> \o word

Total == Opt(<<Lit("total"), Plus(Space)>>)       \* (?:total\s+)?
Dietary == Opt(<<Lit("dietary"), Plus(Space)>>)   \* (?:dietary\s+)?

\* the nutrients in the order the code extracts them
Nutrients == <<"calories", "protein", "carbs", "fat", "sodium", "fiber", "sugar">>

\* cal_patterns, protein_patterns, ... : each list in its source order
NutrientPatterns(n) ==
    CASE n = "calories" ->
           << <<Lit("calories"), Star(ColonSpace), Cap>>,
              <<Cap, Star(Space), Lit("calories")>>,
              <<Lit("cal"), Star(ColonSpace), Cap>> >>
      [] n = "protein" ->
           << ValueAfter(<<Lit("protein")>>, "g"),
              ValueBefore(<<Lit("protein")>>, "g") >>
      [] n = "carbs" ->
           << ValueAfter(<<Total, Lit("carb"), Opt(<<Lit("ohydrate")>>),
                           Opt(<<Lit("s")>>)>>, "g"),
              ValueBefore(<<Total, Lit("carb")>>, "g") >>
      [] n = "fat" ->
           << ValueAfter(<<Total, Lit("fat")>>, "g"),
              ValueBefore(<<Total, Lit("fat")>>, "g") >>
      [] n = "sodium" ->
           << ValueAfter(<<Lit("sodium")>>, "mg"),
              ValueBefore(<<Lit("sodium")>>, "mg") >>
      [] n = "fiber" ->
           << ValueAfter(<<Dietary, Lit("fiber")>>, "g"),
              ValueBefore(<<Dietary, Lit("fiber")>>, "g") >>
      [] n = "sugar" ->
           << ValueAfter(<<Total, Lit("sugar"), Opt(<<Lit("s")>>)>>, "g"),
              ValueBefore(<<Total, Lit("sugar")>>, "g") >>

\* for pattern in patterns: m = re.search(pattern, s); if m: ...; (no break)
RECURSIVE FirstMatch_LastWins(_, _)
FirstMatch_LastWins(ps, s) ==
    IF ps = <<>> THEN None
    ELSE LET later == FirstMatch_LastWins(Tail(ps), s)
         IN  IF later # None THEN later ELSE Search(Head(ps), s, 1)

\* for pattern in patterns: m = re.search(pattern, s); if m: ...; break
RECURSIVE FirstMatch(_, _)
FirstMatch(ps, s) ==
    IF ps = <<>> THEN None
    ELSE LET m == Search(Head(ps), s, 1)
         IN  IF m # None THEN m ELSE FirstMatch(Tail(ps), s)

\* the nutrient keys scrape_product_details sets from all_text
NutrientFields(all_text) ==
    LET all_text_lower == Lower(all_text)
        match == [i \in 1..Len(Nutrients) |->
                     FirstMatch(NutrientPatterns(Nutrients[i]), all_text_lower)]
        index(n) == CHOOSE i \in 1..Len(Nutrients) : Nutrients[i] = n
    IN  [n \in {Nutrients[i] : i \in {h \in 1..Len(Nutrients) : match[h] # None}} |->
            Int10(match[index(n)])]

-----------------------------------------------------------------------------
(* SpecParse: the field parsers applied to every text of a bounded set   *)
MaxPriceLen == 4     \* longest price text drawn from PriceAlphabet

PriceAlphabet == {"$", ",", ".", "1", "0", "x"}

\* every string of at most n characters of the alphabet
RECURSIVE TextsUpTo(_, _)
TextsUpTo(alphabet, n) ==
    IF n = 0 THEN {""}
    ELSE LET shorter == TextsUpTo(alphabet, n - 1)
         IN  shorter \cup {s \o c : s \in shorter, c \in alphabet}

\* the texts extract_price is applied to: the bounded texts, the price
\* texts of a product tile, and the absent text
PriceTexts ==
    TextsUpTo(PriceAlphabet, MaxPriceLen)
        \cup {"$1,234.56", "1234.56", "$12", "$12.99 ea", "Sign In For Price"}
        \cup {None}

MaxTokens == 4       \* most tokens of a detail text drawn from NutrientTokens

\* how the detail pages spell a nutrient and its unit
NutrientWord(n) ==
    CASE n = "calories" -> "Calories" [] n = "protein" -> "Protein"
      [] n = "carbs" -> "Carbs"       [] n = "fat" -> "Fat"
      [] n = "sodium" -> "Sodium"     [] n = "fiber" -> "Fiber"
      [] n = "sugar" -> "Sugar"
NutrientUnit(n) ==
    CASE n = "calories" -> "cal" [] n = "sodium" -> "mg" [] OTHER -> "g"
NutrientTokens(n) == {NutrientWord(n), NutrientUnit(n), ":", " ", "1", "2"}

\* the texts the nutrient patterns are applied to (all_text): for each
\* nutrient every text of at most MaxTokens of its tokens, and labels as the
\* detail pages print them
DetailTexts ==
    UNION {TextsUpTo(NutrientTokens(Nutrients[i]), MaxTokens) : i \in 1..Len(Nutrients)}
        \cup {"Protein: 10g", "Serves 4\nProtein: 10g", "5g Protein: 10g",
              "Total Carbohydrates: 30g", "5 g total fat", "Dietary Fiber 3g",
              "Sugars 12 g", "Sodium 480mg", "120 calories", "Size 16 oz"}

\* s repeated n times
RECURSIVE Rep(_, _)
Rep(s, n) ==
    IF n = 0 THEN ""
    ELSE IF n % 2 = 1 THEN s \o Rep(s, n - 1)
    ELSE LET half == Rep(s, n \div 2) IN half \o half

\* how a detail page prints the serving size: absent, a plain line, a line
\* that runs on past the cap, a label with nothing to capture after it
ServingPieces ==
    {"", "Serving Size: 2 tbsp (30g)\n", "serving size " \o Rep("about one cup ", 9) \o "\n",
     "Serving size: .\n"}

\* the ingredients: absent, a short list, a list of one line, a list of
\* several lines longer than the cap, a bare label at the end of a line
IngredientPieces ==
    {"", "Ingredients: salt\n\n", "INGREDIENTS: rolled oats, cane sugar, sea salt\n\n",
     "Ingredients:\n" \o Rep("water, " \o Rep("sugar, ", 30) \o "salt\n", 10) \o "\n",
     "Ingredient\n\n"}

\* the allergen statement: absent, one of each pattern, both on one line,
\* a statement longer than the cap
AllergenPieces ==
    {"", "Contains: milk, soy\n", "May contain tree nuts\n",
     "Contains wheat. May contain soy\n",
     "Allergens: " \o Rep("peanuts, ", 60) \o "\n"}

\* the texts the three patterns are applied to (all_text)
LengthTexts ==
    {s \o i \o a : s \in ServingPieces, i \in IngredientPieces, a \in AllergenPieces}
        \cup {a \o i \o s : s \in ServingPieces, i \in IngredientPieces, a \in AllergenPieces}

InitParse ==
    /\ pc \in {"PriceText", "DetailText", "LengthText"}
    /\ text \in CASE pc = "PriceText" -> PriceTexts
                  [] pc = "DetailText" -> DetailTexts
                  [] pc = "LengthText" -> LengthTexts
    /\ parsed = None
    /\ products = <<>>
    /\ idx = 0
    /\ saved_count = 0
    /\ store = <<>>
    /\ sinkMode = "merge"
    /\ saveLog = <<>>
    /\ callNo = 1
    /\ firstStore = <<>>
    /\ firstLog = <<>>
    /\ IdleSession
    /\ IdleCrawl
    /\ IdleWarehouse
    /\ saved_returned = 0
    /\ cardProduct = <<>>
    /\ cardFound = {}

\* price = self.extract_price(text)
ParsePrice ==
    /\ pc = "PriceText"
    /\ parsed' = extract_price(text)
    /\ pc' = "PriceParsed"
    /\ UNCHANGED <<products, idx, saved_count, store, sinkMode, saveLog, harness,
                   session, crawl, warehouse, saved_returned, cardProduct, cardFound,
                   text>>

\* the nutrient loops of scrape_product_details on all_text
ParseNutrients ==
    /\ pc = "DetailText"
    /\ parsed' = NutrientFields(text)
    /\ pc' = "DetailParsed"
    /\ UNCHANGED <<products, idx, saved_count, store, sinkMode, saveLog, harness,
                   session, crawl, warehouse, saved_returned, cardProduct, cardFound,
                   text>>

-----------------------------------------------------------------------------
(* serving size, ingredients and allergens of scrape_product_details,    *)
(* lines 479-502, on all_text.  The scans are written without recursion  *)
(* so that they run on texts of thousands of characters.                 *)

ServingCap == 100       \* [:100]
IngredientsMin == 20    \* len(ingredients) > 20
IngredientsCap == 2000  \* [:2000]
AllergensCap == 500     \* [:500]

\* s[:n] kept whole
Cut_Whole(s, n) == s

\* s[:n]
Cut(s, n) == IF Len(s) <= n THEN s ELSE SubSeq(s, 1, n)

\* the first position from i on whose character is in class (Len(s) + 1 if none)
NextIn(s, i, class) ==
    LET js == {j \in i..Len(s) : Char(s, j) \in class}
    IN  IF js = {} THEN Len(s) + 1 ELSE CHOOSE j \in js : \A k \in js : j <= k

\* the first position from i on whose character is not in class: where a
\* greedy run of class that starts at i ends
NextNotIn(s, i, class) ==
    LET js == {j \in i..Len(s) : Char(s, j) \notin class}
    IN  IF js = {} THEN Len(s) + 1 ELSE CHOOSE j \in js : \A k \in js : j <= k

\* re.IGNORECASE literal w (given in lower case) at position i of s
WordAt(s, i, w) ==
    /\ i + Len(w) - 1 <= Len(s)
    /\ LowerChar(Char(s, i)) = Char(w, 1)
    /\ Lower(SubSeq(s, i, i + Len(w) - 1)) = w

\* [:\s]*(X+) from position `from`, X any character outside stop: the
\* greedy [:\s]* gives characters back until the group can start.  The
\* position the group starts at, 0 when it cannot start.
CaptureStart(s, from, stop) ==
    LET k == NextNotIn(s, from, ColonSpace)
        js == {j \in from..k : j <= Len(s) /\ Char(s, j) \notin stop}
    IN  IF js = {} THEN 0 ELSE CHOOSE j \in js : \A h \in js : h <= j

\* the characters [^\n,\.] excludes, and those [^\n] excludes
ServingStop == {"\n", ",", "."}
LineStop == {"\n"}

\* re.search(r'serving size[:\s]*([^\n,\.]+)', all_text, re.IGNORECASE):
\* group(1) of the leftmost match, None without a match
ServingMatch(s) ==
    LET label == "serving size"
        is == {i \in 1..Len(s) :
                  WordAt(s, i, label) /\ CaptureStart(s, i + Len(label), ServingStop) # 0}
    IN  IF is = {} THEN None
        ELSE LET i == CHOOSE j \in is : \A h \in is : j <= h
                 c == CaptureStart(s, i + Len(label), ServingStop)
             IN  SubSeq(s, c, NextIn(s, c, ServingStop) - 1)

\* the lookahead (?=\n\s*\n|allergen|contains|$) at position j of s
IngredientsAhead(s, j) ==
    \/ j = Len(s) + 1
    \/ j = Len(s) /\ Char(s, j) = "\n"
    \/ /\ Char(s, j) = "\n"
       /\ \E q \in (j + 1)..(NextNotIn(s, j + 1, Space) - 1) : Char(s, q) = "\n"
    \/ WordAt(s, j, "allergen")
    \/ WordAt(s, j, "contains")

\* where the group of the ingredients pattern starts for the label at i:
\* after `s?` and [:\s]*, the `s` given back when nothing else can start it
IngredientsStart(s, i) ==
    LET p == i + Len("ingredient")
        plural == p <= Len(s) /\ LowerChar(Char(s, p)) = "s"
    IN  IF plural /\ CaptureStart(s, p + 1, LineStop) # 0
        THEN CaptureStart(s, p + 1, LineStop)
        ELSE CaptureStart(s, p, LineStop)

\* re.search(r'ingredients?[:\s]*([^\n]+(?:\n[^\n]+)*?)(?=\n\s*\n|allergen|contains|$)',
\*           all_text, re.IGNORECASE): group(1) of the leftmost match.  The
\* group takes whole lines, as few as let the lookahead hold at a line end.
IngredientsMatch(s) ==
    LET is == {i \in 1..Len(s) : WordAt(s, i, "ingredient") /\ IngredientsStart(s, i) # 0}
    IN  IF is = {} THEN None
        ELSE LET i == CHOOSE j \in is : \A h \in is : j <= h
                 c == IngredientsStart(s, i)
                 es == {j \in (c + 1)..(Len(s) + 1) :
                           /\ j = Len(s) + 1 \/ Char(s, j) = "\n"
                           /\ IngredientsAhead(s, j)}
             IN  SubSeq(s, c, (CHOOSE j \in es : \A h \in es : j <= h) - 1)

\* re.search(r'(?:w1|w2)[:\s]*([^\n]+)', all_text, re.IGNORECASE) for the
\* words of one allergen pattern: group(1) of the leftmost match
AllergenMatch(s, words) ==
    LET starts(i) == {CaptureStart(s, i + Len(w), LineStop) : w \in {v \in words : WordAt(s, i, v)}} \ {0}
        is == {i \in 1..Len(s) : starts(i) # {}}
    IN  IF is = {} THEN None
        ELSE LET i == CHOOSE j \in is : \A h \in is : j <= h
                 c == CHOOSE j \in starts(i) : TRUE
             IN  SubSeq(s, c, NextIn(s, c, LineStop) - 1)

\* allergen_patterns
AllergenPatterns == <<{"contains", "allergen"}, {"may contain"}>>

\* "; ".join(list)
RECURSIVE Join(_, _)
Join(sep, list) ==
    IF list = <<>> THEN ""
    ELSE IF Len(list) = 1 THEN list[1]
    ELSE list[1] \o sep \o Join(sep, Tail(list))

\* the allergens list: the stripped group of every pattern that matches
RECURSIVE AllergenList(_, _)
AllergenList(s, n) ==
    IF n = 0 THEN <<>>
    ELSE LET m == AllergenMatch(s, AllergenPatterns[n])
         IN  IF m = None THEN AllergenList(s, n - 1)
             ELSE Append(AllergenList(s, n - 1), Strip(m))

\* the keys lines 479-502 set on the product, with their values
LengthFields(all_text) ==
    LET serving == ServingMatch(all_text)
        ingredients == IF IngredientsMatch(all_text) = None THEN None
                       ELSE Strip(IngredientsMatch(all_text))
        allergens == AllergenList(all_text, Len(AllergenPatterns))
        keys == (IF serving # None THEN {"serving_size"} ELSE {})
                \cup (IF ingredients # None /\ Len(ingredients) > IngredientsMin
                      THEN {"ingredients"} ELSE {})
                \cup (IF allergens # <<>> THEN {"allergens"} ELSE {})
    IN  [k \in keys |->
            CASE k = "serving_size" -> Cut(Strip(serving), ServingCap)
              [] k = "ingredients" -> Cut(ingredients, IngredientsCap)
              [] k = "allergens" -> Cut(Join("; ", allergens), AllergensCap)]

\* the serving size, ingredients and allergens blocks of scrape_product_details
ParseLengths ==
    /\ pc = "LengthText"
    /\ parsed' = LengthFields(text)
    /\ pc' = "LengthsParsed"
    /\ UNCHANGED <<products, idx, saved_count, store, sinkMode, saveLog, harness,
                   session, crawl, warehouse, saved_returned, cardProduct, cardFound,
                   text>>

NextParse == ParsePrice \/ ParseNutrients \/ ParseLengths

SpecParse == InitParse /\ [][NextParse]_vars

-----------------------------------------------------------------------------
(* C19: extract_price is total and returns the first numeric run of the  *)
(* text, thousands separators removed, as a float: "$1,234.56" and       *)
(* "1234.56" give 1234.56, "$12" gives 12.0, and a text without a digit  *)
(* (the empty and the absent text included) gives None; it never raises. *)
HasDigit(t) == t # None /\ \E i \in 1..Len(t) : Char(t, i) \in Digit

\* t without its commas
RECURSIVE Uncomma(_)
Uncomma(t) ==
    IF t = "" THEN ""
    ELSE IF Char(t, 1) = "," THEN Uncomma(Tail(t))
         ELSE Char(t, 1) \o Uncomma(Tail(t))

\* s is digits, optionally followed by "." and further digits
IsNumericRun(s) ==
    \E k \in 1..Len(s) :
        /\ \A i \in 1..k : Char(s, i) \in Digit
        /\ k < Len(s) => /\ Char(s, k + 1) = "."
                         /\ \A i \in (k + 2)..Len(s) : Char(s, i) \in Digit

\* the longest numeric run that starts at the first digit of t
FirstNumericRun(t) ==
    LET a == CHOOSE i \in 1..Len(t) :
                 Char(t, i) \in Digit /\ \A h \in 1..(i - 1) : Char(t, h) \notin Digit
        b == CHOOSE i \in a..Len(t) :
                 /\ IsNumericRun(SubSeq(t, a, i))
                 /\ \A h \in (i + 1)..Len(t) : ~IsNumericRun(SubSeq(t, a, h))
    IN  SubSeq(t, a, b)

C19_PriceParse ==
    pc = "PriceParsed" =>
        /\ parsed # ValueError
        /\ ~HasDigit(text) => parsed = None
        /\ HasDigit(text) => parsed = Float(FirstNumericRun(Uncomma(text)))
        /\ text \in {"$1,234.56", "1234.56"} => parsed = "1234.56"
        /\ text = "$12" => parsed = "12.0"

\* a price with a thousands separator has been parsed
C19_Witness ==
    /\ pc = "PriceParsed"
    /\ text = "$1,234.56"
    /\ parsed = "1234.56"

-----------------------------------------------------------------------------
(* C18: for each nutrient the value stored is the capture of the first   *)
(* pattern of its list, in list order, that matches the lower-cased      *)
(* text; a later pattern that also matches does not replace it, and a    *)
(* number placed before a matching "Protein: 10g" does not change the    *)
(* result.                                                               *)
\* what each pattern of nutrient n captures in s (None: no match), and the
\* positions of the patterns that match
Captures(n, s) ==
    [k \in 1..Len(NutrientPatterns(n)) |-> Search(NutrientPatterns(n)[k], s, 1)]
Matching(caps) == {k \in DOMAIN caps : caps[k] # None}

\* the smallest element of a non-empty set of numbers
Least(S) == CHOOSE k \in S : \A h \in S : k <= h

\* numbers that have nothing to do with the label that follows them
UnrelatedNumbers == {"7 ", "7g "}

C18_NutrientPrecedence ==
    pc = "DetailParsed" =>
        /\ \A i \in 1..Len(Nutrients) :
              LET n == Nutrients[i]
                  caps == Captures(n, Lower(text))
              IN  IF Matching(caps) = {}
                  THEN n \notin DOMAIN parsed
                  ELSE /\ n \in DOMAIN parsed
                       /\ parsed[n] = Int10(caps[Least(Matching(caps))])
        /\ 1 \in Matching(Captures("protein", Lower(text))) =>
              \A junk \in UnrelatedNumbers :
                  Int10(FirstMatch(NutrientPatterns("protein"), Lower(junk \o text)))
                      = parsed["protein"]
        /\ text \in {"Protein: 10g", "Serves 4\nProtein: 10g", "5g Protein: 10g"} =>
              parsed["protein"] = "10"

\* both protein patterns match the text, with different captures
C18_Witness ==
    /\ pc = "DetailParsed"
    /\ text = "5g Protein: 10g"
    /\ Matching(Captures("protein", Lower(text))) = {1, 2}
    /\ parsed["protein"] = "10"

-----------------------------------------------------------------------------
(* scrape_product_card, strategy by strategy *)
NumNameSelectors == 11
NumPriceSelectors == 6
NumImageSelectors == 2
NumLinkSelectors == 7

\* product[k] = v
SetKey(p, k, v) == [x \in DOMAIN p \cup {k} |-> IF x = k THEN v ELSE p[x]]

\* what get_attribute("data-testid") returns for a container
TestIds == {None, "Link", "ProductTile_", "ProductTile_100555"}

\* find_element found no element for the selector
Missing == "NoSuchElementException"

\* what a name strategy reads: no element, or the element's .text
NameReads == {Missing, "", " \n", "abc", " abc ", " Salt\n", "Kirkland Salmon"}

\* what a price strategy reads
PriceReads == {Missing, " ", "Sign In For Price", "$0.00", "$12.99"}

\* what an image element's src and data-src are
Image1 == "https://cdn.costco.com/salmon.jpg"
Image2 == "https://cdn.costco.com/lazy.jpg"
SrcReads == {None, "", Image1}
DataSrcReads == {None, Image2}

\* what a link strategy reads: no element, or the element's href
HrefReads == {Missing, None, "", "javascript:void(0)", "/salmon.product.4000123.html",
              "https://www.costco.com/salmon.product.4000123.html",
              "https://www.costco.com/p/-/salt/12"}

\* what the brand lookup reads
BrandReads == {Missing, " ", " Kirkland Signature "}

\* `name_text and len(name_text) > 3`
ValidName_NonEmpty(t) == t # ""

ValidName(t) == t # "" /\ Len(t) > 3

\* `if product['price']`: None and 0.0 are falsy
TruthyPrice(p) == p # None /\ p # "0.0"

\* `'.html' in href or '/p/' in href`
IsItemHref(h) == Contains(h, ".html") \/ Contains(h, "/p/")

\* `if not href.startswith('http'): href = f"https://www.costco.com{href}"`
AbsoluteUrl(h) == IF ~StartsWith(h, "http") THEN "https://www.costco.com" \o h ELSE h

\* group(1) of r'[/.](\d{6,})(?:\.html|\?|$)' matched at position i of u, or
\* None: a shorter digit run would be followed by a digit, so the greedy
\* run is the only candidate
UrlIdAt(u, i) ==
    LET e == RunEnd(u, i + 1, Digit)
    IN  IF /\ Char(u, i) \in {"/", "."}
           /\ e - (i + 1) >= 6
           /\ \/ e > Len(u)
              \/ Char(u, e) = "?"
              \/ StartsWith(SubSeq(u, e, Len(u)), ".html")
        THEN SubSeq(u, i + 1, e - 1) ELSE None

RECURSIVE UrlIdFrom(_, _)
UrlIdFrom(u, i) ==
    IF i > Len(u) THEN None
    ELSE LET m == UrlIdAt(u, i) IN IF m # None THEN m ELSE UrlIdFrom(u, i + 1)

\* re.search(r'[/.](\d{6,})(?:\.html|\?|$)', product['product_url'])
UrlId(u) == UrlIdFrom(u, 1)

\* where an optional field's loop goes when find_element raises
\* NoSuchElementException: `continue`, the same loop
AfterNoSuchElement_Abort(loop) == "Caught"

AfterNoSuchElement(loop) == loop

OptionalFields == {"price", "image_url", "product_url", "costco_id", "brand"}

\* datetime.utcnow().isoformat() of the run
Now == "2025-01-01T00:00:00"

\* what the card actions leave alone
cardRest == <<saved_count, store, sinkMode, saveLog, harness, session, links,
              seen_urls, product_loaded, page_content, page_marker, reloads,
              graceApplied, warehouse, saved_returned, parsed>>

\* the container the card loop is at: the first one not read yet
CurrentCard ==
    CHOOSE i \in 1..Len(product_cards) :
        /\ "shown" \notin DOMAIN product_cards[i]
        /\ \A h \in 1..(i - 1) : "shown" \in DOMAIN product_cards[h]

\* scrape_product_card is entered: the base dict, then costco_id from the
\* data-testid attribute (get_attribute raising is swallowed: as for None)
CardBegin ==
    /\ pc = "PerItemExtraction"
    /\ idx <= Len(product_cards)
    /\ \E testid \in TestIds :
          LET base == [category |-> Categories[catIdx],
                       warehouse_location |-> "Sandy, UT",
                       last_scraped_at |-> Now]
              tile == testid # None /\ testid # "" /\ StartsWith(testid, "ProductTile_")
          IN  /\ cardProduct' = IF tile
                                THEN SetKey(base, "costco_id",
                                            Replace(testid, "ProductTile_", ""))
                                ELSE base
              /\ cardFound' = IF tile THEN {"costco_id"} ELSE {}
    /\ pc' = "NameLoop"
    /\ idx' = 1
    /\ text' = None
    /\ UNCHANGED <<products, product_cards, cardRest>>

\* one name strategy: find_element, .text.strip(), validity, break
NameQuery ==
    /\ pc = "NameLoop"
    /\ idx <= NumNameSelectors
    /\ \E t \in NameReads :
          /\ text' = t
          /\ IF t # Missing /\ ValidName(Strip(t))
             THEN /\ cardProduct' = SetKey(cardProduct, "name", Strip(t))
                  /\ pc' = "NameFound"
                  /\ idx' = idx
             ELSE /\ idx' = idx + 1
                  /\ UNCHANGED <<pc, cardProduct>>
    /\ UNCHANGED <<products, product_cards, cardFound, cardRest>>

\* name_found = True; break: on to the price strategies
NameBreak ==
    /\ pc = "NameFound"
    /\ pc' = "PriceLoop"
    /\ idx' = 1
    /\ UNCHANGED <<products, product_cards, cardProduct, cardFound, text, cardRest>>

\* if not name_found: return None
NameExhausted ==
    /\ pc = "NameLoop"
    /\ idx > NumNameSelectors
    /\ pc' = "NoName"
    /\ UNCHANGED <<idx, products, product_cards, cardProduct, cardFound, text, cardRest>>

\* one price strategy
PriceQuery ==
    /\ pc = "PriceLoop"
    /\ idx <= NumPriceSelectors
    /\ \E t \in PriceReads :
          /\ text' = t
          /\ IF t = Missing
             THEN /\ pc' = AfterNoSuchElement("PriceLoop")
                  /\ idx' = idx + 1
                  /\ UNCHANGED <<cardProduct, cardFound>>
             ELSE IF Strip(t) = ""
             THEN /\ idx' = idx + 1
                  /\ UNCHANGED <<pc, cardProduct, cardFound>>
             ELSE LET price == extract_price(Strip(t))
                  IN  IF price = ValueError
                      THEN /\ pc' = "Caught"
                           /\ UNCHANGED <<idx, cardProduct, cardFound>>
                      ELSE /\ cardProduct' = SetKey(cardProduct, "price", price)
                           /\ cardFound' = cardFound \cup {"price"}
                           /\ IF TruthyPrice(price)
                              THEN pc' = "ImageLoop" /\ idx' = 1
                              ELSE pc' = pc /\ idx' = idx + 1
    /\ UNCHANGED <<products, product_cards, cardRest>>

PriceExhausted ==
    /\ pc = "PriceLoop"
    /\ idx > NumPriceSelectors
    /\ pc' = "ImageLoop"
    /\ idx' = 1
    /\ UNCHANGED <<products, product_cards, cardProduct, cardFound, text, cardRest>>

\* one image strategy: img_url = src or data-src
ImageQuery ==
    /\ pc = "ImageLoop"
    /\ idx <= NumImageSelectors
    /\ \E exists \in BOOLEAN, src \in SrcReads, data_src \in DataSrcReads :
          LET img_url == IF ~exists THEN Missing
                         ELSE IF Truthy(src) THEN src ELSE data_src
          IN  /\ text' = img_url
              /\ IF img_url = Missing
                 THEN /\ pc' = AfterNoSuchElement("ImageLoop")
                      /\ idx' = idx + 1
                      /\ UNCHANGED <<cardProduct, cardFound>>
                 ELSE IF Truthy(img_url)
                 THEN /\ cardProduct' = SetKey(cardProduct, "image_url", img_url)
                      /\ cardFound' = cardFound \cup {"image_url"}
                      /\ pc' = "LinkLoop"
                      /\ idx' = 1
                 ELSE /\ idx' = idx + 1
                      /\ UNCHANGED <<pc, cardProduct, cardFound>>
    /\ UNCHANGED <<products, product_cards, cardRest>>

ImageExhausted ==
    /\ pc = "ImageLoop"
    /\ idx > NumImageSelectors
    /\ pc' = "LinkLoop"
    /\ idx' = 1
    /\ UNCHANGED <<products, product_cards, cardProduct, cardFound, text, cardRest>>

\* one link strategy: href, item-link test, absolute URL, break
UrlQuery ==
    /\ pc = "LinkLoop"
    /\ idx <= NumLinkSelectors
    /\ \E href \in HrefReads :
          /\ text' = href
          /\ IF href = Missing
             THEN /\ pc' = AfterNoSuchElement("LinkLoop")
                  /\ idx' = idx + 1
                  /\ UNCHANGED <<cardProduct, cardFound>>
             ELSE IF Truthy(href) /\ IsItemHref(href)
             THEN /\ cardProduct' = SetKey(cardProduct, "product_url", AbsoluteUrl(href))
                  /\ cardFound' = cardFound \cup {"product_url"}
                  /\ pc' = "IdFromUrl"
                  /\ idx' = 1
             ELSE /\ idx' = idx + 1
                  /\ cardFound' = IF Truthy(href) THEN cardFound \cup {"product_url"}
                                  ELSE cardFound
                  /\ UNCHANGED <<pc, cardProduct>>
    /\ UNCHANGED <<products, product_cards, cardRest>>

UrlExhausted ==
    /\ pc = "LinkLoop"
    /\ idx > NumLinkSelectors
    /\ pc' = "IdFromUrl"
    /\ idx' = 1
    /\ UNCHANGED <<products, product_cards, cardProduct, cardFound, text, cardRest>>

\* if not product.get('costco_id') and product.get('product_url'): id from the URL
IdFromUrl ==
    /\ pc = "IdFromUrl"
    /\ LET id == IF ~Truthy(Get(cardProduct, "costco_id"))
                     /\ Truthy(Get(cardProduct, "product_url"))
                 THEN UrlId(cardProduct["product_url"]) ELSE None
       IN  IF id # None
           THEN /\ cardProduct' = SetKey(cardProduct, "costco_id", id)
                /\ cardFound' = cardFound \cup {"costco_id"}
           ELSE UNCHANGED <<cardProduct, cardFound>>
    /\ pc' = "Brand"
    /\ UNCHANGED <<idx, products, product_cards, text, cardRest>>

\* the brand lookup
BrandQuery ==
    /\ pc = "Brand"
    /\ \E t \in BrandReads :
          /\ text' = t
          /\ IF t = Missing
             THEN /\ pc' = AfterNoSuchElement("CardEnd")
                  /\ UNCHANGED <<cardProduct, cardFound>>
             ELSE /\ pc' = "CardEnd"
                  /\ IF Strip(t) # ""
                     THEN /\ cardProduct' = SetKey(cardProduct, "brand", Strip(t))
                          /\ cardFound' = cardFound \cup {"brand"}
                     ELSE UNCHANGED <<cardProduct, cardFound>>
    /\ UNCHANGED <<idx, products, product_cards, cardRest>>

\* a lookup or a read raised something other than NoSuchElementException
Stale == "StaleElementReferenceException"

\* a lookup or a read raises something other than NoSuchElementException
\* (a stale element, a lost session): the outer `except Exception`
CardRaises ==
    /\ \/ pc = "NameLoop" /\ idx <= NumNameSelectors
       \/ pc = "PriceLoop" /\ idx <= NumPriceSelectors
       \/ pc = "ImageLoop" /\ idx <= NumImageSelectors
       \/ pc = "LinkLoop" /\ idx <= NumLinkSelectors
       \/ pc = "Brand"
    /\ pc' = "Caught"
    /\ text' = Stale
    /\ UNCHANGED <<idx, products, product_cards, cardProduct, cardFound, cardRest>>

\* return product if product.get('name') else None
CardReturn ==
    /\ pc = "CardEnd"
    /\ pc' = IF Truthy(Get(cardProduct, "name")) THEN "Returned" ELSE "NoName"
    /\ UNCHANGED <<idx, products, product_cards, cardProduct, cardFound, text, cardRest>>

\* the card loop got a product: if product and product.get('name'): append
CardAppend ==
    /\ pc = "Returned"
    /\ products' = IF Truthy(Get(cardProduct, "name"))
                   THEN Append(products, cardProduct) ELSE products
    /\ product_cards' = [product_cards EXCEPT ![CurrentCard] = ReadCard(@, "named")]
    /\ idx' = CurrentCard + 1
    /\ pc' = "PerItemExtraction"
    /\ cardProduct' = <<>>
    /\ cardFound' = {}
    /\ text' = None
    /\ UNCHANGED cardRest

\* the card loop got None: next container
CardNone ==
    /\ pc \in {"NoName", "Caught"}
    /\ product_cards' = [product_cards EXCEPT ![CurrentCard] =
                            ReadCard(@, IF pc = "NoName" THEN "nameless" ELSE "raises")]
    /\ idx' = AfterCardSkipped(CurrentCard, Len(product_cards))
    /\ pc' = "PerItemExtraction"
    /\ cardProduct' = <<>>
    /\ cardFound' = {}
    /\ text' = None
    /\ UNCHANGED <<products, cardRest>>

\* SpecCard: the card loop of the first category over one container, with
\* the detail fetch switched off, up to the category's save_to_database call
InitCard ==
    /\ pc = "PerItemExtraction"
    /\ products = <<>>
    /\ idx = 1
    /\ saved_count = 0
    /\ store = <<>>
    /\ sinkMode \in SinkModes
    /\ saveLog = <<>>
    /\ callNo = 1
    /\ firstStore = <<>>
    /\ firstLog = <<>>
    /\ driver = "live"
    /\ detailsOn = FALSE
    /\ catIdx = 1
    /\ all_products = <<>>
    /\ visited = <<Categories[1]>>
    /\ offered = 0
    /\ product_cards = <<TileCard(1)>>
    /\ links = <<>>
    /\ seen_urls = {}
    /\ product_loaded = FALSE
    /\ page_content = "unread"
    /\ page_marker = FALSE
    /\ reloads = 0
    /\ graceApplied = FALSE
    /\ IdleUnit

NextCard ==
    \/ CardBegin \/ NameQuery \/ NameBreak \/ NameExhausted
    \/ PriceQuery \/ PriceExhausted
    \/ ImageQuery \/ ImageExhausted \/ UrlQuery \/ UrlExhausted \/ IdFromUrl
    \/ BrandQuery \/ CardRaises \/ CardReturn \/ CardAppend \/ CardNone
    \/ ExtractDone \/ CategoryReturn
    \/ SaveSkip \/ SaveUpsertOk \/ SaveUpsertRaise \/ SaveFinish

SpecCard == InitCard /\ [][NextCard]_vars

-----------------------------------------------------------------------------
(* C13: the name strategies are evaluated in list order; the name is the *)
(* stripped text of the first strategy whose element exists and whose    *)
(* stripped text is non-empty and longer than 3 characters, and once it  *)
(* is found no later name strategy is evaluated.                         *)
CardPcs == {"NameLoop", "NameFound", "PriceLoop", "ImageLoop", "LinkLoop",
            "IdFromUrl", "Brand", "CardEnd"}

C13_Inv ==
    /\ pc = "NameLoop" => /\ "name" \notin DOMAIN cardProduct
                          /\ idx \in 1..(NumNameSelectors + 1)
    /\ pc = "NameFound" => idx \in 1..NumNameSelectors

C13_Step ==
    /\ (pc = "NameLoop" /\ idx <= NumNameSelectors /\ pc' # "Caught") =>
          IF text' # Missing /\ Strip(text') # "" /\ Len(Strip(text')) > 3
          THEN /\ cardProduct'["name"] = Strip(text')
               /\ pc' = "NameFound"
               /\ idx' = idx
          ELSE /\ "name" \notin DOMAIN cardProduct'
               /\ pc' = "NameLoop"
               /\ idx' = idx + 1
    /\ (pc \in CardPcs /\ "name" \in DOMAIN cardProduct) =>
          /\ pc' # "NameLoop"
          /\ pc' \in CardPcs => cardProduct'["name"] = cardProduct["name"]

C13_NameFallback == []C13_Inv /\ [][C13_Step]_vars

\* the second name strategy resolved the name, from a text with blanks
\* around it, after the first one had failed
C13_Witness ==
    /\ pc = "NameFound"
    /\ idx = 2
    /\ text = " Salt\n"
    /\ cardProduct["name"] = "Salt"

-----------------------------------------------------------------------------
(* C14: for a container whose name resolved, a strategy of an optional   *)
(* field (price, image, item URL, source id, brand) that finds nothing   *)
(* neither ends the extraction nor changes the record; the record is     *)
(* returned, and every optional field none of whose strategies found a   *)
(* value is absent from it.                                              *)
\* the thread is about to run a strategy of an optional field
OptionalQueryDue ==
    \/ pc = "PriceLoop" /\ idx <= NumPriceSelectors
    \/ pc = "ImageLoop" /\ idx <= NumImageSelectors
    \/ pc = "LinkLoop" /\ idx <= NumLinkSelectors
    \/ pc = "Brand"

C14_Inv ==
    /\ pc \in {"PriceLoop", "ImageLoop", "LinkLoop", "IdFromUrl", "Brand", "CardEnd",
               "Returned"} => Truthy(Get(cardProduct, "name"))
    /\ pc = "Returned" =>
          \A f \in OptionalFields \ cardFound : f \notin DOMAIN cardProduct
    /\ pc = "NoName" => "name" \notin DOMAIN cardProduct
    /\ pc = "Caught" => text = Stale

C14_Step ==
    /\ (OptionalQueryDue /\ text' \in {Missing, None, "", " "}) =>
          /\ pc' \notin {"Caught", "NoName"}
          /\ cardProduct' = cardProduct
    /\ pc = "CardEnd" => pc' = "Returned" /\ cardProduct' = cardProduct

-----------------------------------------------------------------------------
(* C15: every record scrape_category returns has a non-empty name, and   *)
(* every record for which save_to_database issues an upsert has both a   *)
(* non-empty name and a product_url.                                     *)
Extractable(p) == Get(p, "name") # None /\ Len(Get(p, "name")) > 0
Persistable(p) == Extractable(p) /\ Get(p, "product_url") # None
                      /\ Len(Get(p, "product_url")) > 0

C15_RecordValidity ==
    /\ \A j \in 1..Len(products) : Extractable(products[j])
    /\ \A j \in 1..Len(all_products) : Extractable(all_products[j])
    /\ \A j \in 1..Len(saveLog) :
          saveLog[j].outcome \in {"ok", "error"} => Persistable(saveLog[j].product)
    /\ \A j \in 1..Len(store) : Persistable(store[j])

\* a container's record, its name from a text with blanks around it and its
\* key from a relative href, was extracted, returned and written
C15_Witness ==
    /\ pc = "Save"
    /\ idx > Len(products)
    /\ Len(saveLog) = 1
    /\ saveLog[1].outcome = "ok"
    /\ Len(store) = 1
    /\ store[1]["name"] = "Salt"
    /\ store[1]["product_url"] = "https://www.costco.com/salmon.product.4000123.html"
    /\ store[1]["costco_id"] = "4000123"

-----------------------------------------------------------------------------
(* set_warehouse, one wait, click or lookup at a time, inside the start of *)
(* run: launch, home page, set_warehouse, then the first category.         *)

NumWarehouseSelectors == 6   \* len(warehouse_selectors)
NumZipSelectors == 4         \* len(zip_selectors)
NumSubmitSelectors == 4      \* len(submit_selectors)

\* the positions inside set_warehouse at which a driver call is made
WarehouseCallPcs == {"WarehouseSelector", "WarehouseClick", "ZipSelector",
                     "ZipType", "SubmitSelector", "OptionWait", "OptionClick"}

\* the positions inside set_warehouse
WarehousePcs == WarehouseCallPcs \cup {"WarehouseGiveUp", "WarehouseCaught"}

\* the ways a set_warehouse call ends
WarehousePaths == {"no_selector", "no_zip_input", "not_clickable", "exception", "set"}

\* where a raised exception takes the call if nothing caught it
OnWarehouseException_Propagate == "Aborted"

\* lines 159-161: except Exception as e: print(...); return True
OnWarehouseException == "WarehouseCaught"

\* what the steps of set_warehouse leave alone
warehouseRest == <<products, saved_count, store, sinkMode, saveLog, harness,
                   session, crawl, saved_returned, cardProduct, cardFound, text,
                   parsed>>

\* self.set_warehouse(WAREHOUSE_ZIP) is entered: the for loop over warehouse_selectors
WarehouseBegin ==
    /\ pc = "SetWarehouse"
    /\ idx' = 1
    /\ pc' = "WarehouseSelector"
    /\ UNCHANGED <<warehouseRest, warehouse>>

\* WebDriverWait(self.driver, 5).until(element_to_be_clickable): break, or
\* TimeoutException: continue
WarehouseSelectorWait ==
    /\ pc = "WarehouseSelector"
    /\ idx <= NumWarehouseSelectors
    /\ \E clickable \in BOOLEAN :
          IF clickable
          THEN pc' = "WarehouseClick" /\ idx' = idx
          ELSE pc' = "WarehouseSelector" /\ idx' = idx + 1
    /\ UNCHANGED <<warehouseRest, warehouse>>

\* no selector gave a button: `if warehouse_button:` is skipped
WarehouseSelectorExhausted ==
    /\ pc = "WarehouseSelector"
    /\ idx > NumWarehouseSelectors
    /\ warehouse_path' = "no_selector"
    /\ pc' = "WarehouseGiveUp"
    /\ UNCHANGED <<warehouseRest, idx, warehouse_set, warehouse_ret>>

\* warehouse_button.click(); time.sleep(2); the for loop over zip_selectors
WarehouseClick ==
    /\ pc = "WarehouseClick"
    /\ idx' = 1
    /\ pc' = "ZipSelector"
    /\ UNCHANGED <<warehouseRest, warehouse>>

\* WebDriverWait(self.driver, 5).until(presence_of_element_located): break, or
\* TimeoutException: continue
ZipSelectorWait ==
    /\ pc = "ZipSelector"
    /\ idx <= NumZipSelectors
    /\ \E present \in BOOLEAN :
          IF present
          THEN pc' = "ZipType" /\ idx' = idx
          ELSE pc' = "ZipSelector" /\ idx' = idx + 1
    /\ UNCHANGED <<warehouseRest, warehouse>>

\* no selector gave an input: `if zip_input:` is skipped
ZipSelectorExhausted ==
    /\ pc = "ZipSelector"
    /\ idx > NumZipSelectors
    /\ warehouse_path' = "no_zip_input"
    /\ pc' = "WarehouseGiveUp"
    /\ UNCHANGED <<warehouseRest, idx, warehouse_set, warehouse_ret>>

\* zip_input.clear(); zip_input.send_keys(zip_code); the for loop over submit_selectors
ZipType ==
    /\ pc = "ZipType"
    /\ idx' = 1
    /\ pc' = "SubmitSelector"
    /\ UNCHANGED <<warehouseRest, warehouse>>

\* find_element; if submit_btn.is_displayed(): click and break; a hidden
\* button or NoSuchElementException goes on to the next selector
SubmitQuery ==
    /\ pc = "SubmitSelector"
    /\ idx <= NumSubmitSelectors
    /\ \E displayed \in BOOLEAN :
          IF displayed
          THEN pc' = "OptionWait" /\ idx' = idx
          ELSE pc' = "SubmitSelector" /\ idx' = idx + 1
    /\ UNCHANGED <<warehouseRest, warehouse>>

\* no submit button was clicked: the result is waited for all the same
SubmitExhausted ==
    /\ pc = "SubmitSelector"
    /\ idx > NumSubmitSelectors
    /\ pc' = "OptionWait"
    /\ UNCHANGED <<warehouseRest, idx, warehouse>>

\* WebDriverWait(self.driver, 5).until(element_to_be_clickable) on the result
\* that shows the zip code; TimeoutException: pass
OptionWait ==
    /\ pc = "OptionWait"
    /\ \E clickable \in BOOLEAN :
          IF clickable
          THEN pc' = "OptionClick" /\ warehouse_path' = warehouse_path
          ELSE pc' = "WarehouseGiveUp" /\ warehouse_path' = "not_clickable"
    /\ UNCHANGED <<warehouseRest, idx, warehouse_set, warehouse_ret>>

\* warehouse_option.click(); self.warehouse_set = True; return True
OptionClick ==
    /\ pc = "OptionClick"
    /\ warehouse_set' = TRUE
    /\ warehouse_path' = "set"
    /\ warehouse_ret' = "True"
    /\ pc' = "CategoryLoop"
    /\ UNCHANGED <<warehouseRest, idx>>

\* print("Could not find warehouse selector - continuing anyway"); return True
WarehouseGiveUp ==
    /\ pc = "WarehouseGiveUp"
    /\ warehouse_ret' = "True"
    /\ pc' = "CategoryLoop"
    /\ UNCHANGED <<warehouseRest, idx, warehouse_set, warehouse_path>>

\* a wait, click, clear, send_keys, find_element or is_displayed raises
\* something its own except clause does not name
WarehouseRaises ==
    /\ pc \in WarehouseCallPcs
    /\ pc = "WarehouseSelector" => idx <= NumWarehouseSelectors
    /\ pc = "ZipSelector" => idx <= NumZipSelectors
    /\ pc = "SubmitSelector" => idx <= NumSubmitSelectors
    /\ warehouse_path' = "exception"
    /\ pc' = OnWarehouseException
    /\ UNCHANGED <<warehouseRest, idx, warehouse_set, warehouse_ret>>

\* except Exception as e: print(f"Error setting warehouse: {e}"); return True
WarehouseCaught ==
    /\ pc = "WarehouseCaught"
    /\ warehouse_ret' = "True"
    /\ pc' = "CategoryLoop"
    /\ UNCHANGED <<warehouseRest, idx, warehouse_set, warehouse_path>>

NextWarehouse ==
    \/ LaunchBrowser \/ LaunchFails \/ OpenHome \/ OpenHomeFails
    \/ WarehouseBegin \/ WarehouseSelectorWait \/ WarehouseSelectorExhausted
    \/ WarehouseClick \/ ZipSelectorWait \/ ZipSelectorExhausted \/ ZipType
    \/ SubmitQuery \/ SubmitExhausted \/ OptionWait \/ OptionClick
    \/ WarehouseGiveUp \/ WarehouseRaises \/ WarehouseCaught
    \/ EnterCategory \/ Navigate

SpecWarehouse == Init /\ [][NextWarehouse]_vars

\* the single thread takes its next step: every wait of set_warehouse has a
\* 5 second timeout
FairSpecWarehouse == SpecWarehouse /\ WF_vars(NextWarehouse)

(* C20: set_warehouse returns normally on every path (no selector, no    *)
(* zip input, result not clickable, any exception), and run starts       *)
(* crawling the configured categories whether or not the warehouse was   *)
(* set.                                                                  *)
C20_Inv ==
    /\ pc \in WarehousePcs => driver = "live" /\ warehouse_ret = None /\ catIdx = 0
    /\ pc \in {"CategoryLoop", "Navigating", "ChallengeCheck"} =>
          /\ warehouse_ret = "True"
          /\ warehouse_path \in WarehousePaths
          /\ driver = "live"
    /\ warehouse_set <=> warehouse_path = "set"
    /\ pc = "Navigating" => visited = <<Categories[1]>>

C20_Step ==
    pc \in WarehousePcs \cup {"SetWarehouse"} =>
        pc' \in WarehousePcs \cup {"CategoryLoop"}

C20_BestEffortWarehouse ==
    /\ []C20_Inv
    /\ [][C20_Step]_vars
    /\ (pc = "SetWarehouse") ~> (pc = "CategoryLoop" /\ warehouse_ret = "True")
    /\ \A path \in WarehousePaths :
          (pc = "CategoryLoop" /\ warehouse_path = path)
              ~> (pc = "Navigating" /\ catIdx = 1 /\ warehouse_path = path)

\* the first category is being fetched after a set_warehouse call that ended
\* in its except clause with the warehouse not set
C20_Witness ==
    /\ pc = "Navigating"
    /\ visited = <<Categories[1]>>
    /\ warehouse_path = "exception"
    /\ warehouse_ret = "True"
    /\ ~warehouse_set

-----------------------------------------------------------------------------
(* The final summary of run *)

\* lines 805-810: the two figures run prints after the finally
\*   print(f"Total products scraped: {len(all_products)}")
\*   print(f"Categories processed: {len(CATEGORIES)}")
SummaryReport ==
    [total_products_scraped |-> Len(all_products),
     categories_processed |-> Len(Categories)]

\* save_to_database returns saved_count to run: the same step as SaveFinish,
\* with the returned counts added up on the side (run itself drops them)
SaveFinishTallied ==
    /\ pc = "Save"
    /\ idx > Len(products)
    /\ pc' = "Pacing"
    /\ saved_returned' = saved_returned + saved_count
    /\ saved_count' = 0
    /\ saveLog' = <<>>
    /\ UNCHANGED <<products, idx, store, sinkMode, harness, session, crawl,
                   warehouse, cardProduct, cardFound, text, parsed>>

\* the run of Spec, with the counts returned by save_to_database added up
NextTally ==
    \/ LaunchBrowser \/ LaunchFails \/ OpenHome \/ OpenHomeFails \/ SetWarehouse
    \/ EnterCategory \/ LeaveLoop \/ QuitDriver
    \/ Navigate \/ CrawlRaises \/ ChallengeClear \/ ChallengeReload
    \/ WaitFound \/ WaitTimeout \/ GraceDelay
    \/ ScrollStep \/ ScrollReset
    \/ PrimaryMatch \/ PrimaryBreak \/ PrimaryMiss \/ FindLinks \/ FindLinksFails
    \/ LinkStep \/ LinkDone \/ NoProductsReturn \/ NoProductsDumpFails
    \/ ExtractRecord \/ ExtractSkip \/ ExtractDone
    \/ DetailNoUrl \/ DetailEnrich \/ DetailFails \/ DetailPartial \/ DetailCaught
    \/ DetailDone
    \/ CategoryReturn
    \/ SaveSkip \/ SaveUpsertOk \/ SaveUpsertRaise \/ SaveFinishTallied
    \/ Pacing

SpecTally == Init /\ [][NextTally]_vars

(* C21: at the end of a run the summary reports the total extracted      *)
(* count, the sum over the categories of the number of records           *)
(* scrape_category returned, and the total saved count, the sum over the *)
(* categories of the count save_to_database returned.                    *)
C21_SummaryTotals ==
    pc = "Summary" =>
        /\ SummaryReport.total_products_scraped = offered
        /\ "total_saved" \in DOMAIN SummaryReport
        /\ SummaryReport.total_saved = saved_returned

-----------------------------------------------------------------------------
(* C22: when an exception occurs anywhere in the crawl of a category,    *)
(* the orchestrator catches it, treats the category as failed and waits  *)
(* the failure cooldown (line 797), not the ordinary pacing delay,       *)
(* before it starts the next category.                                   *)

\* a step of the crawl in which a driver call raised: the phases that are
\* not under a try of their own go on to one another or to container
\* discovery when nothing raises
CrawlRaised ==
    /\ pc \in RaisingPhases
    /\ pc' \notin RaisingPhases \cup {"ContainerDiscovery"}

C22_Step ==
    /\ CrawlRaised => pc' = "Cooldown"
    /\ pc = "Cooldown" => pc' = "CategoryLoop"

C22_FailureCooldown == [][C22_Step]_vars

-----------------------------------------------------------------------------
(* C23: detail fetch is conditional.  With SCRAPE_PRODUCT_DETAILS off no *)
(* detail page is navigated and no persisted record carries an enriched  *)
(* field; with it on, a detail page is navigated only for records that   *)
(* have a product_url, and a record without one is returned unchanged.   *)

\* the keys scrape_product_details assigns
EnrichedKeys ==
    {"description", "raw_product_details", "raw_specifications", "calories",
     "protein", "carbs", "fat", "sodium", "fiber", "sugar", "serving_size",
     "ingredients", "allergens", "package_size", "unit_price"}

\* every record the run holds or has persisted
AllRecords == SeqToSet(products) \cup SeqToSet(all_products) \cup SeqToSet(store)

\* the positions at which a detail page is being fetched or has just failed
DetailPcs == {"DetailFetch", "DetailCaught"}

C23_Inv ==
    /\ pc \in DetailPcs => detailsOn
    /\ ~detailsOn => \A r \in AllRecords : DOMAIN r \cap EnrichedKeys = {}
    /\ \A r \in AllRecords :
          DOMAIN r \cap EnrichedKeys # {} => Truthy(Get(r, "product_url"))

C23_Step ==
    /\ (pc = "DetailFetch" /\ idx <= Len(products)
            /\ ~Truthy(Get(products[idx], "product_url")))
          => /\ products' = products
             /\ pc' = "DetailFetch"
             /\ idx' = idx + 1
    /\ products' # products /\ pc = "DetailFetch"
          => /\ Truthy(Get(products[idx], "product_url"))
             /\ \A i \in 1..Len(products) : i # idx => products'[i] = products[i]

C23_ConditionalDetail == []C23_Inv /\ [][C23_Step]_vars

\* with the option on, a category's save holds a record without product_url
\* that has no enriched field next to a record enriched on its detail page
C23_Witness ==
    /\ detailsOn
    /\ pc = "Save"
    /\ Len(products) = 2
    /\ ~Truthy(Get(products[1], "product_url"))
    /\ DOMAIN products[1] \cap EnrichedKeys = {}
    /\ "description" \in DOMAIN products[2]
    /\ Len(store) = 1
    /\ "description" \in DOMAIN store[1]

-----------------------------------------------------------------------------
(* C24: primary container discovery takes the result of the first        *)
(* selector of product_selectors, in list order, that matches at least   *)
(* one element; no later primary selector is evaluated after it, and the *)
(* link traversal runs only when every primary selector matched nothing. *)

\* in container discovery idx - 1 selectors have been evaluated, in list
\* order, and none of them gave a container
C24_Inv ==
    /\ pc = "ContainerDiscovery" =>
          /\ idx \in 1..(NumProductSelectors + 1)
          /\ product_cards = <<>>
    /\ pc = "ContainerFound" =>
          /\ idx \in 1..NumProductSelectors
          /\ product_cards # <<>>
          /\ product_cards = [i \in 1..Len(product_cards) |-> TileCard(i)]
    /\ pc = "LinkTraversal" =>
          \A i \in 1..Len(product_cards) : product_cards[i].kind = "link"

C24_Step ==
    /\ (pc' = "ContainerDiscovery" /\ pc # "ContainerDiscovery") => idx' = 1
    /\ (pc = "ContainerDiscovery" /\ pc' = "ContainerDiscovery") =>
          /\ idx' = idx + 1
          /\ product_cards' = <<>>
    /\ pc' = "ContainerFound" =>
          /\ pc = "ContainerDiscovery"
          /\ idx' = idx
    /\ pc = "ContainerFound" =>
          /\ pc' = "PerItemExtraction"
          /\ product_cards' = product_cards
    /\ (pc' \in {"LinkTraversal", "NoProducts"} /\ pc = "ContainerDiscovery") =>
          /\ idx = NumProductSelectors + 1
          /\ product_cards = <<>>
    /\ (pc' = "LinkTraversal" /\ pc # "LinkTraversal") => pc = "ContainerDiscovery"

C24_FirstMatchingSelector == []C24_Inv /\ [][C24_Step]_vars

\* the third selector, a legacy one, gave two containers after the first
\* two had given none
C24_Witness ==
    /\ pc = "ContainerFound"
    /\ idx = 3
    /\ Len(product_cards) = 2

-----------------------------------------------------------------------------
(* C25: after detail enrichment serving_size, if set, has at most 100    *)
(* characters; ingredients, if set, was captured with more than 20       *)
(* characters and is stored with at most 2000; allergens, if set, has at *)
(* most 500 characters; for every input text.                            *)
C25_LengthBounds ==
    pc = "LengthsParsed" =>
        /\ "serving_size" \in DOMAIN parsed =>
              Len(parsed.serving_size) <= ServingCap
        /\ "ingredients" \in DOMAIN parsed =>
              /\ Len(parsed.ingredients) <= IngredientsCap
              /\ Len(Strip(IngredientsMatch(text))) > IngredientsMin
              /\ StartsWith(Strip(IngredientsMatch(text)), parsed.ingredients)
        /\ "allergens" \in DOMAIN parsed =>
              Len(parsed.allergens) <= AllergensCap

\* a text whose serving size, ingredients and allergens all ran past their
\* caps has been parsed: each field is stored at exactly its cap
C25_Witness ==
    /\ pc = "LengthsParsed"
    /\ DOMAIN parsed = {"serving_size", "ingredients", "allergens"}
    /\ Len(parsed.serving_size) = ServingCap
    /\ Len(parsed.ingredients) = IngredientsCap
    /\ Len(parsed.allergens) = AllergensCap
    /\ Len(Strip(IngredientsMatch(text))) > IngredientsCap

-----------------------------------------------------------------------------
(* C26: source id precedence.  When the container's data-testid yields   *)
(* an id, that id is kept and the URL never replaces it; the id is       *)
(* parsed from the item URL only when the attribute gave none and an     *)
(* item URL was resolved; otherwise the record has no costco_id.         *)

\* the positions of scrape_product_card after the id-from-URL step
AfterIdPcs == {"Brand", "CardEnd", "Returned"}

C26_Inv ==
    pc \in AfterIdPcs =>
        IF "costco_id" \in DOMAIN cardProduct
        THEN Truthy(cardProduct["costco_id"])
        ELSE ~(Truthy(Get(cardProduct, "product_url"))
                  /\ UrlId(cardProduct["product_url"]) # None)

C26_Step ==
    pc \in CardPcs /\ Get(cardProduct', "costco_id") # Get(cardProduct, "costco_id") =>
        /\ pc = "IdFromUrl"
        /\ ~Truthy(Get(cardProduct, "costco_id"))
        /\ Truthy(Get(cardProduct, "product_url"))
        /\ cardProduct'["costco_id"] = UrlId(cardProduct["product_url"])

C26_SourceIdPrecedence == []C26_Inv /\ [][C26_Step]_vars

-----------------------------------------------------------------------------
(* C27: scrape_category never propagates an exception to run: an         *)
(* exception in any phase makes it return the records accumulated up to  *)
(* that point (possibly none), and run then handles that list exactly as *)
(* it handles a normal result.                                           *)
C27_Inv ==
    /\ pc \in CrawlPcs => driver = "live" /\ catIdx \in 1..Len(Categories)
    /\ pc \in RaisingPhases => products = <<>>

C27_Step ==
    /\ CrawlRaised =>
          /\ pc' = "Done"
          /\ products' = products
          /\ all_products' = all_products
          /\ catIdx' = catIdx
    /\ pc \in CrawlPcs => pc' # "Aborted"
    /\ pc = "Done" =>
          /\ all_products' = all_products \o products
          /\ pc' = IF products # <<>> THEN "Save" ELSE "Pacing"
          /\ products' = products
          /\ store' = store

C27_NoPropagation == []C27_Inv /\ [][C27_Step]_vars

\* the first category raised after a challenge reload and is at its
\* `return products` with an empty list (on the normal path page_content
\* is dropped before container discovery, so this return followed a raise)
C27_Witness ==
    /\ pc = "Done"
    /\ catIdx = 1
    /\ page_content = "challenge"
    /\ reloads = 1
    /\ products = <<>>
    /\ driver = "live"

-----------------------------------------------------------------------------
(* The run with the exceptions no `except Exception` catches: a          *)
(* KeyboardInterrupt or SystemExit raised while the session is set up or *)
(* a category is crawled or saved leaves run through its finally.        *)

\* the positions of run's try block once the driver exists
SessionPcs == {"OpenHome", "SetWarehouse", "CategoryLoop", "Save", "Pacing"} \cup CrawlPcs

\* the exception passes every handler up to run's finally, which quits the
\* driver; it then leaves run, whose locals and those of the calls under it
\* are gone.  The table keeps what was written.
Interrupt ==
    /\ pc \in SessionPcs
    /\ driver' = AfterFinally(driver)
    /\ pc' = "Aborted"
    /\ products' = <<>>
    /\ idx' = 0
    /\ saved_count' = 0
    /\ saveLog' = <<>>
    /\ catIdx' = 0
    /\ all_products' = <<>>
    /\ visited' = <<>>
    /\ offered' = 0
    /\ product_cards' = <<>>
    /\ links' = <<>>
    /\ seen_urls' = {}
    /\ product_loaded' = FALSE
    /\ page_content' = "unread"
    /\ page_marker' = FALSE
    /\ reloads' = 0
    /\ graceApplied' = FALSE
    /\ UNCHANGED <<store, sinkMode, harness, unit, detailsOn>>

NextSession == Next \/ Interrupt

SpecSession == Init /\ [][NextSession]_vars

(* C28: on every exit from run, normal or by an exception raised during  *)
(* session setup or the category loop, the driver is quit exactly once   *)
(* if it was created, and nothing is issued to the driver after it has   *)
(* been quit.                                                            *)
C28_Inv ==
    /\ driver = "none" => pc \in {"Start", "Aborted"}
    /\ driver = "quit" => pc \in {"Summary", "Aborted"}
    /\ pc \in SessionPcs \cup {"Quit"} => driver = "live"
    /\ pc = "Summary" => driver = "quit"

C28_Step ==
    /\ driver # "quit"
    /\ driver' # driver =>
          \/ driver = "none" /\ driver' = "live" /\ pc = "Start"
          \/ driver = "live" /\ driver' = "quit" /\ pc' \in {"Summary", "Aborted"}
    /\ pc' \in {"Summary", "Aborted"} => driver' = IF driver = "none" THEN "none" ELSE "quit"

=============================================================================
